---------------------------- MODULE Spec2Model ----------------------------
(***************************************************************************)
(* Model of the SHL assessment recommender: the two-stage ranking pipeline *)
(* of recommender/recommend.py (FAISS retrieval, training-dominant         *)
(* re-ranking), the FastAPI service of api/main.py around it and the       *)
(* Streamlit search handler of app.py.                                     *)
(*                                                                         *)
(* Text is a sequence of one-character strings, so that lower(), strip(),  *)
(* split() and the substring test act on characters as they do in Python.  *)
(* Scores are Python floats in the source; here they are exact rationals   *)
(* <<numerator, denominator>> in lowest terms with a positive denominator. *)
(***************************************************************************)
EXTENDS Integers, Sequences, FiniteSets, TLC

(***************************************************************************)
(* Sets and sequences                                                      *)
(***************************************************************************)
Range(s) == {s[i] : i \in DOMAIN s}

SetMin(S) == CHOOSE x \in S : \A y \in S : x <= y

SetMax(S) == CHOOSE x \in S : \A y \in S : x >= y

(* Python's list[i] for a 0-based index i: a negative index counts from    *)
(* the end, anything else out of range raises IndexError.                  *)
IndexError == "IndexError"

PyIndex(list, i) ==
    IF i >= 0 /\ i < Len(list) THEN list[i + 1]
    ELSE IF i < 0 /\ i >= 0 - Len(list) THEN list[Len(list) + i + 1]
    ELSE IndexError

(* list[:n + 1], a slice one entry too long.                               *)
PySliceThrough(list, n) ==
    LET m == n + 1
        stop == IF m < 0 THEN Len(list) + m ELSE m
    IN  SubSeq(list, 1, IF stop > Len(list) THEN Len(list) ELSE stop)

(* Python's list[:n]: the first n items, or all but the last -n items when *)
(* n is negative.                                                          *)
PySliceTo(list, n) ==
    IF n >= 0 THEN SubSeq(list, 1, IF n < Len(list) THEN n ELSE Len(list))
    ELSE SubSeq(list, 1, Len(list) + n)

(* f as the table of its values.  (TLC evaluates a function constructor   *)
(* anew at each application; the table is computed once.)                  *)
Table(f) == f @@ <<>>

(* dict.get(key, default) on a record that may lack the field.             *)
Get(a, key, default) == IF key \in DOMAIN a THEN a[key] ELSE default

(***************************************************************************)
(* Rational arithmetic standing for the float arithmetic of the scorers    *)
(***************************************************************************)
RECURSIVE Gcd(_, _)
Gcd(a, b) == IF b = 0 THEN a ELSE Gcd(b, a % b)

Abs(n) == IF n < 0 THEN 0 - n ELSE n

Rat(n, d) ==
    LET g == Gcd(Abs(n), Abs(d))
        s == IF d < 0 THEN 0 - 1 ELSE 1
    IN  <<(s * n) \div g, (s * d) \div g>>

RAdd(a, b) == Rat(a[1] * b[2] + b[1] * a[2], a[2] * b[2])

RSub(a, b) == Rat(a[1] * b[2] - b[1] * a[2], a[2] * b[2])

RMul(a, b) == Rat(a[1] * b[1], a[2] * b[2])

RLt(a, b) == a[1] * b[2] < b[1] * a[2]

RLe(a, b) == a[1] * b[2] <= b[1] * a[2]

RMin(a, b) == IF RLt(b, a) THEN b ELSE a

RMax(a, b) == IF RLt(a, b) THEN b ELSE a

(* max() over a finite set of rationals, `zero` when the set is empty.     *)
RMaxOf(S, zero) ==
    IF S = {} THEN zero ELSE CHOOSE x \in S : \A y \in S : RLe(y, x)

Zero == Rat(0, 1)

One == Rat(1, 1)

(***************************************************************************)
(* str.lower(), str.strip(), str.split() and the `in` substring test       *)
(***************************************************************************)
UpperChars ==
    <<"A","B","C","D","E","F","G","H","I","J","K","L","M",
      "N","O","P","Q","R","S","T","U","V","W","X","Y","Z">>

LowerChars ==
    <<"a","b","c","d","e","f","g","h","i","j","k","l","m",
      "n","o","p","q","r","s","t","u","v","w","x","y","z">>

Whitespace == {" ", "\t", "\n"}

LowerChar(c) ==
    IF \E i \in DOMAIN UpperChars : UpperChars[i] = c
    THEN LowerChars[CHOOSE i \in DOMAIN UpperChars : UpperChars[i] = c]
    ELSE c

lower(s) == Table([i \in 1..Len(s) |-> LowerChar(s[i])])

strip(s) ==
    LET keep == {i \in 1..Len(s) : s[i] \notin Whitespace}
    IN  IF keep = {} THEN <<>> ELSE SubSeq(s, SetMin(keep), SetMax(keep))

(* The tokens of s.split(): the maximal runs of non-whitespace characters. *)
(* Every caller turns the list into a set or filters it into one.          *)
split(s) ==
    LET starts == {i \in 1..Len(s) :
                      s[i] \notin Whitespace /\ (i = 1 \/ s[i - 1] \in Whitespace)}
        endOf(i) == SetMin({j \in i..Len(s) :
                      j = Len(s) \/ s[j + 1] \in Whitespace})
    IN  {SubSeq(s, i, endOf(i)) : i \in starts}

(* a in b, for strings.                                                    *)
IsSubstring(a, b) ==
    \E i \in 0..(Len(b) - Len(a)) : SubSeq(b, i + 1, i + Len(a)) = a

(***************************************************************************)
(* Recommender._build_training_index                                       *)
(***************************************************************************)
(* A file is a record holding its content, or Missing when it cannot be    *)
(* read.  The training workbook holds rows [Query, Assessment_url].        *)
Missing == [missing |-> TRUE]

NormalizeQuery(q) == strip(lower(q))

(* The normalized queries of the rows, in order of first appearance: the   *)
(* insertion order of the query_to_urls dictionary.                        *)
RECURSIVE QueryOrder(_)
QueryOrder(rows) ==
    IF rows = <<>> THEN <<>>
    ELSE LET front == QueryOrder(SubSeq(rows, 1, Len(rows) - 1))
             q == NormalizeQuery(rows[Len(rows)].Query)
         IN  IF q \in Range(front) THEN front ELSE Append(front, q)

(* The rows of the query as it is typed in the workbook.                   *)
UrlsOfQueryAsTyped(rows, q) ==
    LET sel == SelectSeq(rows, LAMBDA r : r.Query = q)
    IN  [i \in 1..Len(sel) |-> sel[i].Assessment_url]

UrlsOfQuery(rows, q) ==
    LET sel == SelectSeq(rows, LAMBDA r : NormalizeQuery(r.Query) = q)
    IN  [i \in 1..Len(sel) |-> sel[i].Assessment_url]

QueryToUrls(rows) ==
    [q \in Range(QueryOrder(rows)) |-> UrlsOfQuery(rows, q)]

(* url_to_queries[url]: one entry per occurrence of url under a query, in  *)
(* the insertion order of the queries.                                     *)
RECURSIVE QueriesOfUrl(_, _, _)
QueriesOfUrl(q2u, order, url) ==
    IF order = <<>> THEN <<>>
    ELSE LET q == order[1]
             n == Len(SelectSeq(q2u[q], LAMBDA u : u = url))
         IN  [i \in 1..n |-> q] \o QueriesOfUrl(q2u, Tail(order), url)

EmptyTrainingIndex ==
    [query_to_urls |-> <<>>, url_to_queries |-> <<>>, all_training_urls |-> {}]

_build_training_index(training_file) ==
    IF training_file = Missing THEN EmptyTrainingIndex
    ELSE LET rows == training_file.rows
             q2u == QueryToUrls(rows)
             urls == {rows[i].Assessment_url : i \in DOMAIN rows}
         IN  [query_to_urls |-> q2u,
              url_to_queries |->
                  [u \in urls |-> QueriesOfUrl(q2u, QueryOrder(rows), u)],
              all_training_urls |-> urls]

(***************************************************************************)
(* Recommender._compute_training_score                                     *)
(***************************************************************************)
ExactScore == Rat(10, 1)

SubstringScore == Rat(8, 1)

(* A bonus that lifts a substring match above an exact match.              *)
PresenceBonusOfThree == Rat(3, 1)

PresenceBonus == Rat(1, 2)

(* An overlap score of the Jaccard ratio alone.                            *)
JaccardOnly(query_tokens, training_tokens) ==
    RMul(Rat(Cardinality(query_tokens \cap training_tokens),
             Cardinality(query_tokens \cup training_tokens)),
         Rat(6, 1))

(* (overlap_ratio * 0.5 + query_coverage * 0.5) * 6.0                      *)
OverlapScore(query_tokens, training_tokens) ==
    LET inter == Cardinality(query_tokens \cap training_tokens)
        union == Cardinality(query_tokens \cup training_tokens)
        overlap_ratio == Rat(inter, union)
        query_coverage == Rat(inter, Cardinality(query_tokens))
    IN  RMul(RAdd(RMul(overlap_ratio, Rat(1, 2)), RMul(query_coverage, Rat(1, 2))),
             Rat(6, 1))

(* The exact-match test on the query as typed, not normalised.             *)
ExactMatchAsTyped(training_index, query, url) ==
    /\ query \in DOMAIN training_index.query_to_urls
    /\ url \in Range(training_index.query_to_urls[query])

_compute_training_score_exact(training_index, query, url) ==
    LET query_lower == strip(lower(query))
        q2u == training_index.query_to_urls
    IN  /\ query_lower \in DOMAIN q2u
        /\ url \in Range(q2u[query_lower])

_compute_training_score(training_index, query, url) ==
    LET query_lower == strip(lower(query))
        q2u == training_index.query_to_urls
        labelled == {t \in DOMAIN q2u : url \in Range(q2u[t])}
        similar(t) == IsSubstring(query_lower, t) \/ IsSubstring(t, query_lower)
        score == IF \E t \in labelled : similar(t) THEN SubstringScore ELSE Zero
        overlaps == {OverlapScore(split(query_lower), split(t)) :
                        t \in {u \in labelled :
                                 /\ ~similar(u)
                                 /\ split(query_lower) # {}
                                 /\ split(u) # {}}}
        max_overlap_score == RMaxOf(overlaps, Zero)
        best == RMax(score, max_overlap_score)
    IN  IF _compute_training_score_exact(training_index, query, url)
        THEN ExactScore
        ELSE IF url \in training_index.all_training_urls
             THEN RAdd(best, PresenceBonus)
             ELSE best

(***************************************************************************)
(* Recommender._extract_key_terms and _compute_name_overlap                *)
(***************************************************************************)
stopwords ==
    {<<"a">>, <<"a","n">>, <<"a","n","d">>, <<"a","r","e">>, <<"a","s">>, <<"a","t">>, <<"b","e">>,
     <<"b","y">>, <<"f","o","r">>, <<"f","r","o","m">>, <<"h","a","s">>, <<"h","e">>, <<"i","n">>,
     <<"i","s">>, <<"i","t">>, <<"i","t","s">>, <<"o","f">>, <<"o","n">>, <<"t","h","a","t">>,
     <<"t","h","e">>, <<"t","o">>, <<"w","a","s">>, <<"w","i","l","l">>, <<"w","i","t","h">>,
     <<"i">>, <<"a","m">>, <<"m","y">>, <<"c","a","n">>, <<"w","h","o">>, <<"a","l","s","o">>,
     <<"w","a","n","t">>, <<"n","e","e","d">>, <<"l","o","o","k","i","n","g">>, <<"h","i","r","e">>,
     <<"h","i","r","i","n","g">>, <<"t","e","s","t">>, <<"a","s","s","e","s","s","m","e","n","t">>}

(* Key terms taken from the text as typed, without lowercasing it.         *)
KeyTermsAsTyped(text) ==
    {t \in split(text) : t \notin stopwords /\ Len(t) > 2}

_extract_key_terms(text) ==
    {t \in split(lower(text)) : t \notin stopwords /\ Len(t) > 2}

(* The overlap without the cap at 1.0.                                     *)
NameOverlapUncapped(query, assessment) ==
    LET query_terms == _extract_key_terms(query)
        name_terms == _extract_key_terms(assessment.name)
        name_overlap == Cardinality(query_terms \cap name_terms)
        desc_terms == _extract_key_terms(Get(assessment, "description", <<>>))
        desc_overlap == Cardinality(query_terms \cap desc_terms)
    IN  IF query_terms = {} THEN Zero
        ELSE Rat(name_overlap * 2 + desc_overlap, Cardinality(query_terms) * 2)

(* An overlap that counts a name match as much as a description match.     *)
NameOverlapEqualWeights(query, assessment) ==
    LET query_terms == _extract_key_terms(query)
        name_terms == _extract_key_terms(assessment.name)
        desc_terms == _extract_key_terms(Get(assessment, "description", <<>>))
    IN  IF query_terms = {} THEN Zero
        ELSE RMin(Rat(Cardinality(query_terms \cap name_terms)
                          + Cardinality(query_terms \cap desc_terms),
                      Cardinality(query_terms) * 2),
                  One)

_compute_name_overlap(query, assessment) ==
    LET query_terms == _extract_key_terms(query)
        name_terms == _extract_key_terms(assessment.name)
        name_overlap == Cardinality(query_terms \cap name_terms)
        desc_terms == _extract_key_terms(Get(assessment, "description", <<>>))
        desc_overlap == Cardinality(query_terms \cap desc_terms)
    IN  IF query_terms = {} THEN Zero
        ELSE RMin(Rat(name_overlap * 2 + desc_overlap, Cardinality(query_terms) * 2),
                  One)

(***************************************************************************)
(* Recommender._compute_test_type_alignment                                *)
(***************************************************************************)
technical_keywords ==
    {<<"j","a","v","a">>, <<"p","y","t","h","o","n">>, <<"s","q","l">>,
     <<"j","a","v","a","s","c","r","i","p","t">>, <<"d","e","v","e","l","o","p","e","r">>,
     <<"p","r","o","g","r","a","m","m","i","n","g">>, <<"t","e","c","h","n","i","c","a","l">>,
     <<"c","o","d","e">>, <<"c","o","d","i","n","g">>, <<"s","o","f","t","w","a","r","e">>,
     <<"e","n","g","i","n","e","e","r">>, <<"d","a","t","a">>}

behavioral_keywords ==
    {<<"c","o","l","l","a","b","o","r","a","t","e">>,
     <<"c","o","m","m","u","n","i","c","a","t","i","o","n">>,
     <<"l","e","a","d","e","r","s","h","i","p">>, <<"t","e","a","m">>,
     <<"i","n","t","e","r","p","e","r","s","o","n","a","l">>,
     <<"p","e","r","s","o","n","a","l","i","t","y">>, <<"b","e","h","a","v","i","o","r">>,
     <<"c","u","l","t","u","r","a","l">>, <<"c","u","l","t","u","r","e">>, <<"f","i","t">>}

business_keywords ==
    {<<"s","a","l","e","s">>, <<"b","u","s","i","n","e","s","s">>,
     <<"c","u","s","t","o","m","e","r">>, <<"c","l","i","e","n","t">>,
     <<"m","a","r","k","e","t","i","n","g">>}

entry_keywords ==
    {<<"g","r","a","d","u","a","t","e">>, <<"e","n","t","r","y">>, <<"j","u","n","i","o","r">>,
     <<"n","e","w"," ","h","i","r","e">>, <<"f","r","e","s","h">>}

AnyKeyword(keywords, text) == \E kw \in keywords : IsSubstring(kw, text)

(* An alignment that is the share of the intents of the query the record   *)
(* matches: an intent the record does not match lowers it.                 *)
AlignmentAsShareOfIntents(query, assessment) ==
    LET query_lower == lower(query)
        test_types == Get(assessment, "test_type", {})
        needs == {<<"Knowledge & Skills", AnyKeyword(technical_keywords, query_lower)>>,
                  <<"Personality & Behavior",
                    AnyKeyword(behavioral_keywords, query_lower)>>,
                  <<"Biodata & Situational Judgement",
                    AnyKeyword(business_keywords, query_lower)>>,
                  <<"Ability & Aptitude", AnyKeyword(entry_keywords, query_lower)>>}
        needed == {n \in needs : n[2]}
        matched == {n \in needed : n[1] \in test_types}
    IN  IF needed = {} THEN Zero
        ELSE Rat(Cardinality(matched), Cardinality(needed))

(* An alignment without the award of an ability test to an entry-level     *)
(* query.                                                                  *)
AlignmentWithoutAbilityBonus(query, assessment) ==
    LET query_lower == lower(query)
        test_types == Get(assessment, "test_type", {})
        job_levels == Get(assessment, "job_levels", {})
        is_entry == \E level \in job_levels :
                        \/ IsSubstring(<<"E","n","t","r","y">>, level)
                        \/ IsSubstring(<<"G","r","a","d","u","a","t","e">>, level)
        award(cond, pts) == IF cond THEN pts ELSE Zero
    IN  RAdd(award(AnyKeyword(technical_keywords, query_lower)
                       /\ "Knowledge & Skills" \in test_types, One),
        RAdd(award(AnyKeyword(behavioral_keywords, query_lower)
                       /\ "Personality & Behavior" \in test_types, One),
        RAdd(award(AnyKeyword(business_keywords, query_lower)
                       /\ "Biodata & Situational Judgement" \in test_types, One),
             award(AnyKeyword(entry_keywords, query_lower) /\ is_entry,
                   Rat(1, 2)))))

_compute_test_type_alignment(query, assessment) ==
    LET query_lower == lower(query)
        test_types == Get(assessment, "test_type", {})
        needs_k == AnyKeyword(technical_keywords, query_lower)
        needs_p == AnyKeyword(behavioral_keywords, query_lower)
        needs_b == AnyKeyword(business_keywords, query_lower)
        needs_entry == AnyKeyword(entry_keywords, query_lower)
        has_k == "Knowledge & Skills" \in test_types
        has_p == "Personality & Behavior" \in test_types
        has_b == "Biodata & Situational Judgement" \in test_types
        has_a == "Ability & Aptitude" \in test_types
        job_levels == Get(assessment, "job_levels", {})
        is_entry == \E level \in job_levels :
                        \/ IsSubstring(<<"E","n","t","r","y">>, level)
                        \/ IsSubstring(<<"G","r","a","d","u","a","t","e">>, level)
        award(cond, pts) == IF cond THEN pts ELSE Zero
    IN  RAdd(award(needs_k /\ has_k, One),
        RAdd(award(needs_p /\ has_p, One),
        RAdd(award(needs_b /\ has_b, One),
        RAdd(award(needs_entry /\ is_entry, Rat(1, 2)),
             award(needs_entry /\ has_a, Rat(1, 2))))))


(***************************************************************************)
(* Recommender._stage2_rerank                                              *)
(***************************************************************************)
TrainingWeight == Rat(60, 100)

NameWeight == Rat(20, 100)

TestTypeWeight == Rat(15, 100)

EmbeddingWeight == Rat(5, 100)

(* A loop body that caps the test type score at 1.0 in the weighted sum.   *)
ScoreCandidateCappingType(training_index, query, cand) ==
    LET training_score == _compute_training_score(training_index, query, cand.url)
        name_score == _compute_name_overlap(query, cand.assessment)
        test_type_score == _compute_test_type_alignment(query, cand.assessment)
    IN  [url |-> cand.url,
         name |-> cand.assessment.name,
         score |->
            RAdd(RAdd(RAdd(RMul(TrainingWeight,
                                RMin(RMul(training_score, Rat(1, 10)), One)),
                           RMul(NameWeight, name_score)),
                      RMul(TestTypeWeight, RMin(test_type_score, One))),
                 RMul(EmbeddingWeight, cand.embedding_similarity)),
         training_score |-> training_score,
         name_score |-> name_score,
         test_type_score |-> test_type_score,
         embedding_score |-> cand.embedding_similarity]

(* The body of the loop over the candidates: the four sub-scores and their *)
(* weighted sum.                                                           *)
ScoreCandidate(training_index, query, cand) ==
    LET assessment == cand.assessment
        url == cand.url
        training_score == _compute_training_score(training_index, query, url)
        name_score == _compute_name_overlap(query, assessment)
        test_type_score == _compute_test_type_alignment(query, assessment)
        embedding_score == cand.embedding_similarity
        training_score_norm == RMin(RMul(training_score, Rat(1, 10)), One)
        final_score ==
            RAdd(RAdd(RAdd(RMul(TrainingWeight, training_score_norm),
                           RMul(NameWeight, name_score)),
                      RMul(TestTypeWeight, test_type_score)),
                 RMul(EmbeddingWeight, embedding_score))
    IN  [url |-> url,
         name |-> assessment.name,
         score |-> final_score,
         training_score |-> training_score,
         name_score |-> name_score,
         test_type_score |-> test_type_score,
         embedding_score |-> embedding_score]

(* scored.sort(key=lambda x: x['score'], reverse=True): Python's sort is   *)
(* stable, and with reverse=True entries of equal key keep their order.    *)
(* SortSeq inserts each entry before the entries it is "less than"; with   *)
(* the strict comparison below an entry never passes one of equal score.   *)
(* A comparison that also ranks an entry above one of equal score.         *)
ScoreAboveOrEqual(a, b) == RLe(b.score, a.score)

ScoreAbove(a, b) == RLt(b.score, a.score)

ScoreBelow(a, b) == RLt(a.score, b.score)

(* The sort without reverse=True: ascending.                               *)
SortByScoreAsc(scored) == SortSeq(scored, ScoreBelow)

SortByScoreDesc(scored) == SortSeq(scored, ScoreAbove)

(* The sub-scores are pure functions of (query, candidate), so the model   *)
(* computes them once per distinct candidate of the list.                  *)
_stage2_rerank(training_index, query, candidates, top_k) ==
    LET scoreOf == Table([c \in Range(candidates) |->
                             ScoreCandidate(training_index, query, c)])
        scored == [i \in 1..Len(candidates) |-> scoreOf[candidates[i]]]
    IN  PySliceTo(SortByScoreDesc(scored), top_k)

(***************************************************************************)
(* Recommender._stage1_retrieval                                           *)
(***************************************************************************)
(* The distance faiss reports for a result slot it could not fill (the     *)
(* index holds fewer than k vectors): the largest float32, far beyond the  *)
(* squared L2 distance of any two unit vectors, which is at most 4.  Its   *)
(* label is -1.                                                            *)
UnfilledDistance == Rat(1000, 1)

UnfilledLabel == 0 - 1

Nearer(a, b) == RLt(a.distance, b.distance)

(* index.search(embedding, k) of a flat L2 index: dist[i] is the squared   *)
(* L2 distance of the query embedding to the vector at position i; the k   *)
(* nearest come first, by ascending distance, labelled by 0-based position;*)
(* the slots beyond the size of the index are unfilled.                    *)
IndexSearch(dist, k) ==
    LET n == Len(dist)
        labelled == [i \in 1..n |-> [label |-> i - 1, distance |-> dist[i]]]
        nearest == SortSeq(labelled, Nearer)
    IN  [j \in 1..k |->
            IF j <= n THEN nearest[j]
            ELSE [label |-> UnfilledLabel, distance |-> UnfilledDistance]]

(* The outcome of a call: a returned value or a raised exception.          *)
None == [none |-> TRUE]

NoError == "no error"

Return(v) == [raised |-> NoError, value |-> v]

Raise(e) == [raised |-> e, value |-> <<>>]

(* embedding is what the embedding collaborator did for this call: "ok",   *)
(* "unreachable" (the request raises) or "malformed" (the response cannot  *)
(* be turned into a vector of the index's dimension, which raises in       *)
(* _get_query_embedding or in index.search).                               *)
EmbeddingOutcomes == {"ok", "unreachable", "malformed"}

(* A call that asks the embedding collaborator again when it fails.        *)
EmbeddingRequestsRetrying(query, embedding) ==
    IF embedding = "ok" THEN <<[input |-> <<query>>]>>
    ELSE <<[input |-> <<query>>], [input |-> <<query>>]>>

(* The requests a recommend call sends to the embedding collaborator:      *)
(* _stage1_retrieval calls _get_query_embedding once, which calls          *)
(* client.embeddings.create(input=[query]) once, whatever the outcome.     *)
EmbeddingRequests(query, embedding) == <<[input |-> <<query>>]>>

_get_query_embedding(embedding) ==
    IF embedding = "ok" THEN Return("vector") ELSE Raise("EmbeddingError")

(* The loop over the hits of the search: the first hit whose label is not *)
(* a position of the metadata list, or whose url is not in the catalog,    *)
(* raises.                                                                 *)
CandidatesOfHits(self, hits) ==
    LET urlAt(j) == PyIndex(self.metadata.assessment_urls, hits[j].label)
        failing == {j \in 1..Len(hits) :
                       \/ urlAt(j) = IndexError
                       \/ urlAt(j) \notin DOMAIN self.url_to_assessment}
    IN  IF failing # {}
        THEN Raise(IF urlAt(SetMin(failing)) = IndexError
                   THEN "IndexError" ELSE "KeyError")
        ELSE Return([j \in 1..Len(hits) |->
                [url |-> urlAt(j),
                 embedding_similarity |-> RSub(One, hits[j].distance),
                 assessment |-> self.url_to_assessment[urlAt(j)]]])

_stage1_retrieval(self, embedding, dist, k) ==
    IF _get_query_embedding(embedding).raised # NoError
    THEN _get_query_embedding(embedding)
    ELSE CandidatesOfHits(self, IndexSearch(dist, k))

(***************************************************************************)
(* Recommender.recommend and Recommender.__init__                          *)
(***************************************************************************)
Stage1K == 500

(* Stage 2 on what Stage 1 returned; an exception of Stage 1 propagates.   *)
RerankRetrieved(self, query, top_k, candidates) ==
    IF candidates.raised # NoError THEN candidates
    ELSE Return(_stage2_rerank(self.training_index, query,
                               candidates.value, top_k))

(* A recommend that catches the failure of the embedding and returns an    *)
(* empty list.                                                             *)
RecommendCatching(self, query, top_k, embedding, dist) ==
    IF _get_query_embedding(embedding).raised # NoError THEN Return(<<>>)
    ELSE RerankRetrieved(self, query, top_k,
                         _stage1_retrieval(self, embedding, dist, Stage1K))

recommend(self, query, top_k, embedding, dist) ==
    RerankRetrieved(self, query, top_k,
                    _stage1_retrieval(self, embedding, dist, Stage1K))

(* {a['url']: a for a in assessments}: a later record of the same url      *)
(* replaces an earlier one.                                                *)
UrlToAssessment(assessments) ==
    [u \in {assessments[i].url : i \in DOMAIN assessments} |->
        assessments[SetMax({i \in DOMAIN assessments : assessments[i].url = u})]]

(* A constructor that lets the failure to read the training workbook       *)
(* propagate.                                                              *)
RecommenderNeedingTraining(index_file, metadata_file, data_file, training_file) ==
    IF index_file = Missing \/ metadata_file = Missing \/ data_file = Missing
          \/ training_file = Missing
    THEN Raise("FileNotFoundError")
    ELSE Return([index |-> index_file,
                 metadata |-> metadata_file,
                 assessments |-> data_file.assessments,
                 url_to_assessment |-> UrlToAssessment(data_file.assessments),
                 training_index |-> _build_training_index(training_file)])

(* Recommender(): reads the index, its metadata and the catalog, each of   *)
(* which raises when the file is missing, and builds the training index,   *)
(* which does not.                                                         *)
Recommender(index_file, metadata_file, data_file, training_file) ==
    IF index_file = Missing \/ metadata_file = Missing \/ data_file = Missing
    THEN Raise("FileNotFoundError")
    ELSE Return([index |-> index_file,
                 metadata |-> metadata_file,
                 assessments |-> data_file.assessments,
                 url_to_assessment |-> UrlToAssessment(data_file.assessments),
                 training_index |-> _build_training_index(training_file)])


(***************************************************************************)
(* api/main.py: the /recommend and /health handlers                        *)
(***************************************************************************)
MinTopK == 1

MaxTopK == 10

HTTPException(status_code, detail) == [status |-> status_code, detail |-> detail]

Digits == <<"0","1","2","3","4","5","6","7","8","9">>

IsDigit(c) == \E i \in DOMAIN Digits : Digits[i] = c

RECURSIVE ParseInt(_)
ParseInt(s) ==
    IF s = <<>> THEN 0
    ELSE ParseInt(SubSeq(s, 1, Len(s) - 1)) * 10
         + (CHOOSE i \in DOMAIN Digits : Digits[i] = s[Len(s)]) - 1

(* re.findall(r'\d+', s): the maximal runs of digits, as (first, last)     *)
(* positions.                                                              *)
DigitRuns(s) ==
    {r \in (1..Len(s)) \X (1..Len(s)) :
        /\ r[1] <= r[2]
        /\ \A i \in r[1]..r[2] : IsDigit(s[i])
        /\ (r[1] = 1 \/ ~IsDigit(s[r[1] - 1]))
        /\ (r[2] = Len(s) \/ ~IsDigit(s[r[2] + 1]))}

(* The duration of the response: the first number of the text, 0 if none.  *)
DurationInt(duration_str) ==
    LET numbers == DigitRuns(duration_str)
    IN  IF numbers = {} THEN 0
        ELSE LET first == CHOOSE r \in numbers : \A q \in numbers : r[1] <= q[1]
             IN  ParseInt(SubSeq(duration_str, first[1], first[2]))

AssessmentModel(r, assessment) ==
    [url |-> r.url,
     name |-> r.name,
     adaptive_support |-> Get(assessment, "adaptive_support", "No"),
     description |-> Get(assessment, "description", <<>>),
     duration |-> DurationInt(Get(assessment, "duration", <<>>)),
     remote_support |-> Get(assessment, "remote_support", "No"),
     test_type |-> Get(assessment, "test_type", {})]

(* A loop that puts each formatted result in front of the ones before it.  *)
FormatNewestFirst(results, all_assessments) ==
    LET url_to_assessment == UrlToAssessment(all_assessments)
        found == SelectSeq(results, LAMBDA r : r.url \in DOMAIN url_to_assessment)
    IN  [i \in 1..Len(found) |->
            AssessmentModel(found[Len(found) + 1 - i],
                            url_to_assessment[found[Len(found) + 1 - i].url])]

(* The loop that formats the response: a result whose url is not in the    *)
(* catalog file read for this request is skipped.                          *)
FormatRecommendations(results, all_assessments) ==
    LET url_to_assessment == UrlToAssessment(all_assessments)
        found == SelectSeq(results, LAMBDA r : r.url \in DOMAIN url_to_assessment)
    IN  [i \in 1..Len(found) |->
            AssessmentModel(found[i], url_to_assessment[found[i].url])]

RecommendResponse(query, recommendations) ==
    [status |-> 200,
     query |-> query,
     recommendations |-> recommendations,
     count |-> Len(recommendations)]

(* The rest of the handler once Recommender.recommend has returned or      *)
(* raised: an exception other than HTTPException becomes a 500.            *)
RespondTo(request, data_file, results) ==
    IF results.raised # NoError
    THEN [response |-> HTTPException(500, "Internal server error"),
          call |-> results]
    ELSE IF data_file = Missing
    THEN [response |-> HTTPException(500, "Assessment data file not found"),
          call |-> results]
    ELSE [response |-> RecommendResponse(request.query,
                           FormatRecommendations(results.value,
                                                 data_file.assessments)),
          call |-> results]

(* POST /recommend.  The value is the response together with the outcome   *)
(* of the call of Recommender.recommend the handler made, None if it made  *)
(* none.                                                                   *)
post_recommend(rec, request, data_file, embedding, dist) ==
    IF rec = None
    THEN [response |-> HTTPException(503, "Recommender not initialized"),
          call |-> None]
    ELSE IF request.query = <<>> \/ strip(request.query) = <<>>
    THEN [response |-> HTTPException(400, "Query cannot be empty"),
          call |-> None]
    ELSE IF request.top_k < MinTopK \/ request.top_k > MaxTopK
    THEN [response |-> HTTPException(400, "top_k must be between 1 and 10"),
          call |-> None]
    ELSE RespondTo(request, data_file,
                   recommend(rec, request.query, request.top_k, embedding, dist))

get_health(rec) ==
    IF rec = None
    THEN [status |-> 200, body |-> "unhealthy"]
    ELSE [status |-> 200, body |-> "healthy"]

(***************************************************************************)
(* app.py: get_recommendations_api and the search button handler           *)
(***************************************************************************)
Unreachable == [unreachable |-> TRUE]

(* requests.post, raise_for_status and data.get("recommendations", []):    *)
(* any exception is reported with st.error and an empty list is returned.  *)
get_recommendations_api(response) ==
    IF response = Unreachable \/ response.status >= 400
    THEN [messages |-> <<"API Error">>, results |-> <<>>]
    ELSE [messages |-> <<>>, results |-> Get(response, "recommendations", <<>>)]

(* What the page shows once the handler has the API's answer.              *)
RenderSearch(response) ==
    LET api == get_recommendations_api(response)
    IN  IF api.results # <<>>
        THEN [messages |-> api.messages \o <<"Found relevant assessments">>,
              cards |-> [i \in 1..Len(api.results) |-> api.results[i].url]]
        ELSE [messages |-> api.messages \o <<"No recommendations found">>,
              cards |-> <<>>]

RenderEmptyQuery ==
    [messages |-> <<"Please enter a query before submitting.">>, cards |-> <<>>]

(***************************************************************************)
(* embeddings/build_index.py                                               *)
(***************************************************************************)
(* The parts create_embedding_text joins with spaces: the name, the        *)
(* description, the test types, the job levels and the minutes of the      *)
(* duration (the last number of a range "a-b", else the first; empty when  *)
(* the duration has no number: no part is added).                          *)
create_embedding_text(assessment) ==
    LET duration == Get(assessment, "duration", <<>>)
        numbers == DigitRuns(duration)
        picked == IF "-" \in Range(duration)
                  THEN CHOOSE r \in numbers : \A q \in numbers : q[1] <= r[1]
                  ELSE CHOOSE r \in numbers : \A q \in numbers : r[1] <= q[1]
    IN  [name |-> assessment.name,
         description |-> Get(assessment, "description", <<>>),
         test_type |-> Get(assessment, "test_type", {}),
         job_levels |-> Get(assessment, "job_levels", {}),
         minutes |-> IF numbers = {} THEN <<>>
                     ELSE SubSeq(duration, picked[1], picked[2])]

(* client.embeddings.create(input=batch): one embedding for each text of   *)
(* the batch, in the order of the batch.                                   *)
EmbeddingsCreate(batch) == [j \in 1..Len(batch) |-> [embedding_of |-> batch[j]]]

(* A loop that puts each batch in front of the batches before it.          *)
RECURSIVE EmbedFromPrepending(_, _, _)
EmbedFromPrepending(texts, i, batch_size) ==
    IF i >= Len(texts) THEN <<>>
    ELSE EmbedFromPrepending(texts, i + batch_size, batch_size)
             \o EmbeddingsCreate(SubSeq(texts, i + 1,
                    IF i + batch_size < Len(texts) THEN i + batch_size
                    ELSE Len(texts)))

(* for i in range(0, len(texts), batch_size): batch = texts[i:i+batch_size]*)
(* and all_embeddings.extend(the embeddings of the batch).                 *)
RECURSIVE EmbedFrom(_, _, _)
EmbedFrom(texts, i, batch_size) ==
    IF i >= Len(texts) THEN <<>>
    ELSE EmbeddingsCreate(SubSeq(texts, i + 1,
                              IF i + batch_size < Len(texts) THEN i + batch_size
                              ELSE Len(texts)))
             \o EmbedFrom(texts, i + batch_size, batch_size)

(* range() raises ValueError for a step of 0 and is empty for a negative   *)
(* step.                                                                   *)
get_embeddings(texts, batch_size) ==
    IF batch_size = 0 THEN Raise("ValueError")
    ELSE IF batch_size < 0 THEN Return(<<>>)
    ELSE Return(EmbedFrom(texts, 0, batch_size))

DefaultBatchSize == 100

(* faiss.normalize_L2 and index.add: the vectors in the order given.       *)
build_faiss_index(embeddings) ==
    [ntotal |-> Len(embeddings),
     vectors |-> [i \in 1..Len(embeddings) |-> [unit |-> embeddings[i]]]]

(***************************************************************************)
(* The data the model runs on                                              *)
(***************************************************************************)
RecordPool ==
    << [url |-> "u1",
        name |-> <<"V","e","r","b","a","l"," ","A","b","i","l","i","t","y">>,
        description |-> <<>>,
        test_type |-> {"Ability & Aptitude"},
        job_levels |-> {<<"E","n","t","r","y"," ","L","e","v","e","l">>},
        duration |-> <<"3","0","-","4","0"," ","m","i","n","u","t","e","s">>,
        remote_support |-> "Yes",
        adaptive_support |-> "No"],
       [url |-> "u2",
        name |-> <<"C","o","r","e"," ","J","a","v","a">>,
        description |-> <<"j","a","v","a"," ","r","o","l","e"," ","t","e","s","t">>,
        test_type |-> {"Knowledge & Skills"},
        job_levels |-> {<<"S","e","n","i","o","r"," ","L","e","v","e","l">>},
        duration |-> <<"4","5">>,
        remote_support |-> "Yes",
        adaptive_support |-> "Yes"],
       [url |-> "u3",
        name |-> <<"V","e","r","b","a","l"," ","A","b","i","l","i","t","y">>,
        description |-> <<>>,
        test_type |-> {"Ability & Aptitude"},
        job_levels |-> {<<"E","n","t","r","y"," ","L","e","v","e","l">>},
        duration |-> <<"m","a","x"," ","2","0">>],
       [url |-> "u4",
        name |-> <<"S","a","l","e","s"," ","T","e","a","m"," ","J","a","v","a">>,
        test_type |-> {"Biodata & Situational Judgement", "Personality & Behavior",
                       "Knowledge & Skills"},
        job_levels |-> {<<"G","r","a","d","u","a","t","e">>}],
       [url |-> "u5",
        name |-> <<"T","e","a","m"," ","F","i","t">>,
        description |-> <<>>,
        test_type |-> {"Personality & Behavior"},
        job_levels |-> {}] >>

TrainPool ==
    << [Query |-> <<" ","J","a","v","a"," ","R","o","l","e"," ">>,
        Assessment_url |-> "u1"],
       [Query |-> <<"j","a","v","a">>, Assessment_url |-> "u2"],
       [Query |-> <<"S","a","l","e","s"," ","T","e","a","m">>,
        Assessment_url |-> "u4"],
       [Query |-> <<"j","a","v","a"," ","r","o","l","e">>, Assessment_url |-> "u3"],
       [Query |-> <<"J","A","V","A">>, Assessment_url |-> "u5"] >>

Queries ==
    { <<"j","a","v","a"," ","r","o","l","e">>,
      <<" ","J","a","v","a"," ","R","o","l","e"," ">>,
      <<"J","a","v","a">>,
      <<"s","a","l","e","s"," ","t","e","a","m">>,
      <<>>,
      <<" ">> }

(* top_k as a caller may send it: below, inside and above the API's range. *)
TopKs == {0 - 1, 0, 1, 2, 10, 11}

(* Squared L2 distances of unit vectors, between 0 and 4.                  *)
Distances == {Rat(0, 1), Rat(3, 1)}

MaxCatalog == 3

MaxTrainRows == 3

MaxCands == 3

Prefix(pool, n) == SubSeq(pool, 1, IF n < Len(pool) THEN n ELSE Len(pool))

Catalogs == {Prefix(RecordPool, n) : n \in 1..MaxCatalog}

TrainingFiles == {[rows |-> Prefix(TrainPool, n)] : n \in 0..MaxTrainRows}

(* embeddings/build_index.py main(): one vector per record of the catalog, *)
(* and the urls of the records in the same order.                          *)
BuiltIndex(assessments) ==
    build_faiss_index(
        get_embeddings([i \in 1..Len(assessments) |->
                           create_embedding_text(assessments[i])],
                       DefaultBatchSize).value)

BuiltMetadata(assessments) ==
    [assessment_urls |-> [i \in 1..Len(assessments) |-> assessments[i].url]]

(* main() of embeddings/build_index.py with get_embeddings called with     *)
(* batch_size (main itself passes the default): the index and the metadata *)
(* it writes, or the exception that ends it before it writes anything.     *)
(* embeddings.shape[1] raises IndexError when there is no embedding.       *)
build_main(data_file, batch_size) ==
    IF data_file = Missing THEN Raise("FileNotFoundError")
    ELSE LET assessments == data_file.assessments
             texts == [i \in 1..Len(assessments) |->
                          create_embedding_text(assessments[i])]
             embeddings == get_embeddings(texts, batch_size)
         IN  IF embeddings.raised # NoError THEN embeddings
             ELSE IF embeddings.value = <<>> THEN Raise("IndexError")
             ELSE Return([index |-> build_faiss_index(embeddings.value),
                          metadata |-> BuiltMetadata(assessments)])


(***************************************************************************)
(* State                                                                   *)
(***************************************************************************)
VARIABLES
    dataFile,       \* data/shl_assessments.json
    indexFile,      \* data/faiss_index/index.faiss
    metadataFile,   \* data/faiss_index/metadata.json
    trainingFile,   \* Gen_AI Dataset.xlsx
    started,        \* the service ran its startup event and accepts requests
    recommender,    \* the global of api/main.py: None or the Recommender
    inflight,       \* the request a caller is waiting on, None if none
    reply,          \* the answer to it: None until the handler has run
    lastCall,       \* the Recommender.recommend call made for it, None if none
    screen,         \* what the search handler of the page shows, None if nothing
    rerankIn,       \* arguments of a direct call of _stage2_rerank
    rerankOut,      \* its result
    scoreIn,        \* arguments of a direct call of the text scorers
    scoreOut,       \* their results
    calls,          \* the recommend calls of concurrent threads, None if none
    build,          \* the last run of embeddings/build_index.py, None if none
    retrieved       \* a direct call of _stage1_retrieval, None if none

vars == <<dataFile, indexFile, metadataFile, trainingFile, started, recommender,
          inflight, reply, lastCall, screen, rerankIn, rerankOut, scoreIn, scoreOut,
          calls, build, retrieved>>

files == <<dataFile, indexFile, metadataFile, trainingFile>>

service == <<started, recommender>>

direct == <<rerankIn, rerankOut, scoreIn, scoreOut, calls, build, retrieved>>

(* The files as a deployment finds them: the index and its metadata were   *)
(* built from a catalog; since then a file may have gone missing, or the   *)
(* catalog may have lost its first record.                                 *)
InitFiles ==
    /\ \E built \in Catalogs :
          /\ indexFile = Missing \/ indexFile = BuiltIndex(built)
          /\ metadataFile = Missing \/ metadataFile = BuiltMetadata(built)
          /\ \/ dataFile = Missing
             \/ dataFile = [assessments |-> built]
             \/ dataFile = [assessments |-> Tail(built)]
    /\ trainingFile = Missing \/ trainingFile \in TrainingFiles

Init ==
    /\ InitFiles
    /\ started = FALSE
    /\ recommender = None
    /\ inflight = None
    /\ reply = None
    /\ lastCall = None
    /\ screen = None
    /\ rerankIn = None
    /\ rerankOut = None
    /\ scoreIn = None
    /\ scoreOut = None
    /\ calls = None
    /\ build = None
    /\ retrieved = None

(***************************************************************************)
(* The service                                                             *)
(***************************************************************************)
(* startup_event: a failure to construct the Recommender is caught and     *)
(* printed, and the application goes on to serve with recommender = None.  *)
startup_event ==
    /\ ~started
    /\ LET made == Recommender(indexFile, metadataFile, dataFile, trainingFile)
       IN  recommender' = IF made.raised # NoError THEN None ELSE made.value
    /\ started' = TRUE
    /\ UNCHANGED <<files, inflight, reply, lastCall, screen, direct>>

Idle == inflight = None /\ reply = None /\ screen = None

(* A caller of the HTTP API posts any query with any top_k.                *)
ClientPost ==
    /\ started
    /\ Idle
    /\ \E q \in Queries, k \in TopKs :
          inflight' = [via |-> "client", path |-> "/recommend",
                       query |-> q, top_k |-> k]
    /\ UNCHANGED <<files, service, reply, lastCall, screen, direct>>

ClientGetHealth ==
    /\ started
    /\ Idle
    /\ inflight' = [via |-> "client", path |-> "/health"]
    /\ UNCHANGED <<files, service, reply, lastCall, screen, direct>>

(* The distances a search of the index can report: one for each of its     *)
(* vectors.  Without a Recommender, or without a query vector, there is no *)
(* search.                                                                 *)
SearchDistances(rec, embedding) ==
    IF rec = None \/ embedding # "ok" THEN {<<>>}
    ELSE [1..rec.index.ntotal -> Distances]

(* The handler of POST /recommend runs for the request in flight; the      *)
(* embedding collaborator answers or fails, and the index reports some     *)
(* distance for each of its vectors.                                       *)
HandleRecommend ==
    /\ started
    /\ inflight # None
    /\ inflight.path = "/recommend"
    /\ reply = None
    /\ \E embedding \in EmbeddingOutcomes :
       \E dist \in SearchDistances(recommender, embedding) :
       \E done \in {post_recommend(recommender,
                                    [query |-> inflight.query,
                                     top_k |-> inflight.top_k],
                                    dataFile, embedding, dist)} :
          /\ reply' = done.response
          /\ lastCall' = IF done.call = None THEN None
                         ELSE [embedding |-> embedding, dist |-> dist,
                               requests |-> EmbeddingRequests(inflight.query,
                                                              embedding),
                               outcome |-> done.call]
    /\ UNCHANGED <<files, service, inflight, screen, direct>>

health_check ==
    /\ started
    /\ inflight # None
    /\ inflight.path = "/health"
    /\ reply = None
    /\ reply' = get_health(recommender)
    /\ UNCHANGED <<files, service, inflight, lastCall, screen, direct>>

ClientReceive ==
    /\ inflight # None
    /\ inflight.via = "client"
    /\ reply # None
    /\ inflight' = None
    /\ reply' = None
    /\ lastCall' = None
    /\ UNCHANGED <<files, service, screen, direct>>

(***************************************************************************)
(* The page                                                                *)
(***************************************************************************)
SliderTopKs == {k \in TopKs : k >= 1 /\ k <= 10}

(* The search button with an empty or blank query: a warning, no request.  *)
UiSearchEmpty ==
    /\ Idle
    /\ \E q \in Queries :
          /\ q = <<>> \/ strip(q) = <<>>
          /\ screen' = RenderEmptyQuery
    /\ UNCHANGED <<files, service, inflight, reply, lastCall, direct>>

(* The search button with a query: the page posts it with the slider's     *)
(* top_k and waits for the answer.                                         *)
UiSearchPost ==
    /\ started
    /\ Idle
    /\ \E q \in Queries, k \in SliderTopKs :
          /\ ~(q = <<>> \/ strip(q) = <<>>)
          /\ inflight' = [via |-> "ui", path |-> "/recommend",
                          query |-> q, top_k |-> k]
    /\ UNCHANGED <<files, service, reply, lastCall, screen, direct>>

(* The same, when the API cannot be reached or does not answer in time.    *)
UiSearchUnreachable ==
    /\ Idle
    /\ \E q \in Queries, k \in SliderTopKs :
          /\ ~(q = <<>> \/ strip(q) = <<>>)
          /\ inflight' = [via |-> "ui", path |-> "/recommend",
                          query |-> q, top_k |-> k]
    /\ reply' = Unreachable
    /\ UNCHANGED <<files, service, lastCall, screen, direct>>

(* The page gets the answer and renders the outcome of the search.         *)
UiRender ==
    /\ inflight # None
    /\ inflight.via = "ui"
    /\ reply # None
    /\ screen' = RenderSearch(reply)
    /\ inflight' = None
    /\ reply' = None
    /\ lastCall' = None
    /\ UNCHANGED <<files, service, direct>>

(* The next interaction reruns the script, which clears the outcome.       *)
UiRerun ==
    /\ screen # None
    /\ inflight = None
    /\ screen' = None
    /\ UNCHANGED <<files, service, inflight, reply, lastCall, direct>>

Next ==
    \/ startup_event
    \/ ClientPost
    \/ ClientGetHealth
    \/ HandleRecommend
    \/ health_check
    \/ ClientReceive
    \/ UiSearchEmpty
    \/ UiSearchPost
    \/ UiSearchUnreachable
    \/ UiRender
    \/ UiRerun

Spec == Init /\ [][Next]_vars

(***************************************************************************)
(* Direct calls of the Recommender's methods                               *)
(***************************************************************************)
(* A training file whose first url is labelled by two queries.             *)
OverlapRows ==
    << [Query |-> <<"J","a","v","a"," ","R","o","l","e">>, Assessment_url |-> "u1"],
       [Query |-> <<"s","a","l","e","s"," ","t","e","a","m"," ","l","e","a","d">>, Assessment_url |-> "u1"],
       [Query |-> <<"t","e","a","m">>, Assessment_url |-> "u2"] >>

(* A Recommender constructed from a catalog, its index and a training      *)
(* file, outside the service.                                              *)
InitDirect ==
    /\ dataFile = [assessments |-> Prefix(RecordPool, MaxCatalog)]
    /\ indexFile = BuiltIndex(dataFile.assessments)
    /\ metadataFile = BuiltMetadata(dataFile.assessments)
    /\ \/ trainingFile = Missing
       \/ trainingFile = [rows |-> Prefix(TrainPool, MaxTrainRows)]
       \/ trainingFile = [rows |-> OverlapRows]
    /\ started = FALSE
    /\ recommender =
           Recommender(indexFile, metadataFile, dataFile, trainingFile).value
    /\ inflight = None
    /\ reply = None
    /\ lastCall = None
    /\ screen = None
    /\ rerankIn = None
    /\ rerankOut = None
    /\ scoreIn = None
    /\ scoreOut = None
    /\ calls = None
    /\ build = None
    /\ retrieved = None

(* The candidates Stage 1 makes of the records of the catalog.             *)
CandidateChoices(self) ==
    {[url |-> a.url,
      embedding_similarity |-> RSub(One, d),
      assessment |-> self.url_to_assessment[a.url]] :
        a \in Range(self.assessments), d \in Distances}

CandidateLists(self) ==
    UNION {[1..n -> CandidateChoices(self)] : n \in 0..MaxCands}

DirectQueries ==
    { <<"j","a","v","a"," ","r","o","l","e">>,
      <<"s","a","l","e","s"," ","t","e","a","m">> }

(* top_k as a caller of the method may pass it: no range is enforced.      *)
DirectTopKs == {0 - 1, 0, 2, 10}

PoolUrls == {RecordPool[i].url : i \in DOMAIN RecordPool}

NotCalled == rerankIn = None /\ scoreIn = None /\ retrieved = None

(* self._stage2_rerank(query, candidates, top_k)                           *)
CallRerank ==
    /\ NotCalled
    /\ \E query \in DirectQueries, top_k \in DirectTopKs,
          candidates \in CandidateLists(recommender) :
          /\ rerankIn' = [query |-> query, candidates |-> candidates,
                          top_k |-> top_k]
          /\ rerankOut' = _stage2_rerank(recommender.training_index, query,
                                         candidates, top_k)
    /\ UNCHANGED <<files, service, inflight, reply, lastCall, screen,
                   scoreIn, scoreOut, calls, build, retrieved>>

TrainingScoreQueries ==
    Queries \cup { <<"j","a","v","a"," ","t","e","a","m">>, <<"S","a","l","e","s"," ","T","e","a","m">> }

(* self._compute_training_score(query, url)                                *)
CallTrainingScore ==
    /\ NotCalled
    /\ \E query \in TrainingScoreQueries, url \in PoolUrls :
          /\ scoreIn' = [query |-> query, url |-> url]
          /\ scoreOut' = _compute_training_score(recommender.training_index,
                                                 query, url)
    /\ UNCHANGED <<files, service, inflight, reply, lastCall, screen,
                   rerankIn, rerankOut, calls, build, retrieved>>

(* k as a caller of the method may pass it, below and above the size of    *)
(* the index.                                                              *)
RetrieveKs == {1, 2, 5}

(* self._stage1_retrieval(query, k); hits is what the index search         *)
(* reported to it.                                                         *)
CallRetrieve ==
    /\ recommender # None
    /\ NotCalled
    /\ \E k \in RetrieveKs, embedding \in EmbeddingOutcomes :
       \E dist \in SearchDistances(recommender, embedding) :
          retrieved' = [k |-> k, embedding |-> embedding, dist |-> dist,
                        hits |-> IndexSearch(dist, k),
                        out |-> _stage1_retrieval(recommender, embedding, dist, k)]
    /\ UNCHANGED <<files, service, inflight, reply, lastCall, screen,
                   rerankIn, rerankOut, scoreIn, scoreOut, calls, build>>

NextDirect ==
    \/ CallRerank
    \/ CallTrainingScore
    \/ CallRetrieve

SpecDirect == InitDirect /\ [][NextDirect]_vars

(***************************************************************************)
(* Properties of the direct calls (under SpecDirect)                       *)
(***************************************************************************)
(* The entry of the result is the scored entry of the candidate: it has    *)
(* the candidate's url, name and embedding similarity.                     *)
EntryOf(entry, cand) ==
    /\ entry.url = cand.url
    /\ entry.name = cand.assessment.name
    /\ entry.embedding_score = cand.embedding_similarity

(* C1: the list _stage2_rerank returns is sorted by final score in         *)
(* non-increasing order, and entries of exactly equal final score keep the *)
(* relative order their candidates had in the input: the entries can be    *)
(* traced back to distinct input positions that increase along every run   *)
(* of equal scores.                                                        *)
C1_SortedAndStable ==
    rerankIn # None =>
        /\ \A i \in 1..(Len(rerankOut) - 1) :
              RLe(rerankOut[i + 1].score, rerankOut[i].score)
        /\ \E pi \in [DOMAIN rerankOut -> DOMAIN rerankIn.candidates] :
              /\ \A i \in DOMAIN rerankOut :
                    EntryOf(rerankOut[i], rerankIn.candidates[pi[i]])
              /\ \A i, j \in DOMAIN rerankOut : i < j => pi[i] # pi[j]
              /\ \A i, j \in DOMAIN rerankOut :
                    (i < j /\ rerankOut[i].score = rerankOut[j].score)
                        => pi[i] < pi[j]

(* A call whose sort moved a later candidate to the front and left two     *)
(* different candidates of equal score behind it.                          *)
C1_Witness ==
    /\ rerankIn # None
    /\ Len(rerankOut) = 3
    /\ rerankOut[1].url # rerankIn.candidates[1].url
    /\ RLt(rerankOut[2].score, rerankOut[1].score)
    /\ rerankOut[2].score = rerankOut[3].score
    /\ rerankOut[2].url # rerankOut[3].url

(* C2, as the code has it: for top_k >= 0 the list has min(top_k, n)       *)
(* entries of the n candidates; for top_k < 0 the slice scored[:top_k]     *)
(* drops the last -top_k entries, which leaves max(n + top_k, 0); in both  *)
(* cases never more than n.                                                *)
C2_LengthOfSlice ==
    rerankIn # None =>
        LET n == Len(rerankIn.candidates)
            top_k == rerankIn.top_k
        IN  /\ Len(rerankOut) <= n
            /\ top_k >= 0 => Len(rerankOut) = (IF top_k < n THEN top_k ELSE n)
            /\ top_k < 0 =>
                  Len(rerankOut) = (IF n + top_k > 0 THEN n + top_k ELSE 0)

(* A call with a negative top_k that returned entries.                     *)
C2_Witness ==
    /\ rerankIn # None
    /\ rerankIn.top_k < 0
    /\ Len(rerankIn.candidates) = 3
    /\ Len(rerankOut) = 2

(* C2 as stated: the list has exactly min(top_k, n) entries, never more    *)
(* than top_k and never more than n, for every integer top_k.  No list has *)
(* a negative length, so for a negative top_k this is read as: no entry is *)
(* returned.                                                               *)
C2_AsStated ==
    rerankIn # None =>
        LET n == Len(rerankIn.candidates)
            top_k == rerankIn.top_k
        IN  /\ Len(rerankOut) <= n
            /\ Len(rerankOut) <= (IF top_k > 0 THEN top_k ELSE 0)
            /\ top_k >= 0 => Len(rerankOut) = (IF top_k < n THEN top_k ELSE n)

(* The query of the call, normalised, is the normalised query of a row of  *)
(* the training file that labels the url of the call.                      *)
TrainedPair(query, url) ==
    /\ trainingFile # Missing
    /\ \E i \in DOMAIN trainingFile.rows :
          /\ strip(lower(trainingFile.rows[i].Query)) = strip(lower(query))
          /\ trainingFile.rows[i].Assessment_url = url

(* C3: for a training pair (q, id) and a query that normalises (lowercase, *)
(* trim) as q does, _compute_training_score(query, id) is exactly 10.0: no *)
(* bonus, whatever the substring and token-overlap strategies would give.  *)
C3_ExactMatchIsTen ==
    (scoreIn # None /\ TrainedPair(scoreIn.query, scoreIn.url))
        => scoreOut = <<10, 1>>

(* An exact match found by normalising: no row of the file has the query   *)
(* as typed.                                                               *)
C3_Witness ==
    /\ scoreIn # None
    /\ TrainedPair(scoreIn.query, scoreIn.url)
    /\ \A i \in DOMAIN trainingFile.rows :
          trainingFile.rows[i].Query # scoreIn.query
    /\ scoreOut = <<10, 1>>

(***************************************************************************)
(* Properties of the service and of the page (under Spec)                  *)
(***************************************************************************)
(* The handler called Recommender.recommend for the request in flight.     *)
Called == lastCall # None

Returned == Called /\ lastCall.outcome.raised = NoError

(* The Stage-1 candidates of that call.                                    *)
CandidatesOfCall ==
    _stage1_retrieval(recommender, lastCall.embedding, lastCall.dist, Stage1K)

(* The training file labels url for the query of the request in flight.    *)
LabelledForQuery(url) ==
    _compute_training_score_exact(recommender.training_index, inflight.query, url)

(* The call was made with top_k = 1 for a query the training file labels   *)
(* with a url that is among the Stage-1 candidates.                        *)
TopOneOfTrainedQuery ==
    /\ Returned
    /\ inflight.top_k = 1
    /\ \E c \in Range(CandidatesOfCall.value) : LabelledForQuery(c.url)

(* Every candidate the training file does not label for the query is no    *)
(* better than some labelled candidate in name overlap, in category        *)
(* alignment and in embedding similarity.                                  *)
UnlabelledAreNoBetter ==
    LET cands == Range(CandidatesOfCall.value)
        name(c) == _compute_name_overlap(inflight.query, c.assessment)
        type(c) == _compute_test_type_alignment(inflight.query, c.assessment)
    IN  \A c \in cands :
            LabelledForQuery(c.url) \/
            \E e \in cands :
                /\ LabelledForQuery(e.url)
                /\ RLe(name(c), name(e))
                /\ RLe(type(c), type(e))
                /\ RLe(c.embedding_similarity, e.embedding_similarity)

(* C4, as the code has it: recommend(q, top_k=1) returns a candidate       *)
(* labelled for q whenever every unlabelled candidate is no better than    *)
(* some labelled candidate in the three other signals.  (A labelled        *)
(* candidate has training score 10.0, any other at most 8.5.)              *)
C4_ExactMatchWinsWhenNoWorse ==
    (TopOneOfTrainedQuery /\ UnlabelledAreNoBetter)
        => LabelledForQuery(lastCall.outcome.value[1].url)

(* Such a call, with an unlabelled candidate among the candidates.         *)
C4_Witness ==
    /\ TopOneOfTrainedQuery
    /\ UnlabelledAreNoBetter
    /\ \E c \in Range(CandidatesOfCall.value) : ~LabelledForQuery(c.url)
    /\ LabelledForQuery(lastCall.outcome.value[1].url)

(* C4 as stated: recommend(q, top_k=1) returns a candidate labelled for q  *)
(* whatever the other three signals of the candidates are.                 *)
C4_AsStated ==
    TopOneOfTrainedQuery => LabelledForQuery(lastCall.outcome.value[1].url)

(* The index metadata lists a url that has no record in the catalog.       *)
DanglingId ==
    \E u \in Range(recommender.metadata.assessment_urls) :
        u \notin DOMAIN recommender.url_to_assessment

(* C5 as stated: with a candidate id that has no record in the catalog,    *)
(* recommend does not fail; the candidate is dropped and the others are    *)
(* ranked and returned.                                                    *)
C5_DanglingIdIsDropped ==
    (Called /\ lastCall.embedding = "ok" /\ DanglingId)
        => /\ lastCall.outcome.raised = NoError
           /\ \A r \in Range(lastCall.outcome.value) :
                 r.url \in DOMAIN recommender.url_to_assessment

(* C6 as stated: asked for at least as many items as the index holds,      *)
(* recommend does not raise and returns exactly one result for each item   *)
(* of the index.                                                           *)
C6_ReturnsWhatExists ==
    (Called /\ lastCall.embedding = "ok" /\ ~DanglingId
        /\ inflight.top_k >= recommender.index.ntotal)
        => /\ lastCall.outcome.raised = NoError
           /\ Len(lastCall.outcome.value) = recommender.index.ntotal
           /\ \A i, j \in DOMAIN lastCall.outcome.value :
                 i # j => lastCall.outcome.value[i].url # lastCall.outcome.value[j].url

(* C7: when the embedding collaborator fails during a recommend call, the  *)
(* call fails with an error and returns no list, partial or empty.         *)
C7_EmbeddingFailureFailsTheCall ==
    (Called /\ lastCall.embedding # "ok")
        => /\ lastCall.outcome.raised # NoError
           /\ lastCall.outcome.value = <<>>

(* A call during which the embedding collaborator was unreachable, on a    *)
(* service whose catalog and index are in order.                           *)
C7_Witness ==
    /\ Called
    /\ lastCall.embedding = "unreachable"
    /\ lastCall.outcome.raised = "EmbeddingError"
    /\ ~DanglingId
    /\ reply # None

(* C8 as stated: whenever recommend fails, the endpoint answers with a     *)
(* server-side error status, never with a success, and the page does not   *)
(* present the failure as "No recommendations found".                      *)
C8_FailureIsNotNoResults ==
    [][(Called /\ lastCall.outcome.raised # NoError)
          => /\ reply.status >= 500
             /\ (inflight.via = "ui" /\ screen' # None)
                   => \A i \in DOMAIN screen'.messages :
                         screen'.messages[i] # "No recommendations found"]_vars

(* The request in flight is a /recommend request with a top_k outside      *)
(* [1,10] or with an empty or blank query.                                 *)
InvalidRequest ==
    /\ inflight # None
    /\ inflight.path = "/recommend"
    /\ \/ inflight.top_k < 1
       \/ inflight.top_k > 10
       \/ inflight.query = <<>>
       \/ strip(inflight.query) = <<>>

Answered == reply # None /\ reply # Unreachable

(* C9 as stated: every invalid /recommend request is answered with 400 and *)
(* never reaches Recommender.recommend, in every state of the service.     *)
C9_InvalidRequestIs400 ==
    (InvalidRequest /\ Answered) => (reply.status = 400 /\ ~Called)

(* C10 as stated: when the index or its metadata cannot be loaded at       *)
(* startup, the service does not come up, so no request is received and    *)
(* answered while the recommender is uninitialized.                        *)
C10_NoTrafficWithoutIndex ==
    (indexFile = Missing \/ metadataFile = Missing)
        => (inflight = None \/ ~Answered)

(* The files the constructor cannot do without are there; the training     *)
(* workbook is not.                                                        *)
OnlyTrainingMissing ==
    /\ trainingFile = Missing
    /\ indexFile # Missing
    /\ metadataFile # Missing
    /\ dataFile # Missing

(* C11: with the training workbook missing or unreadable the Recommender   *)
(* is still constructed, with an empty training index; then                *)
(* _compute_training_score is 0.0 for every query and url, and a recommend *)
(* call that finds its embedding and its records returns a ranking by the  *)
(* other three signals.                                                    *)
C11_DegradesToEmptyTrainingIndex ==
    (started /\ OnlyTrainingMissing) =>
        /\ recommender # None
        /\ recommender.training_index.query_to_urls = <<>>
        /\ recommender.training_index.url_to_queries = <<>>
        /\ recommender.training_index.all_training_urls = {}
        /\ \A q \in Queries, u \in PoolUrls :
              _compute_training_score(recommender.training_index, q, u) = <<0, 1>>
        /\ (Called /\ lastCall.embedding = "ok" /\ ~DanglingId) =>
              /\ Returned
              /\ Len(lastCall.outcome.value) >= 1
              /\ \A i \in DOMAIN lastCall.outcome.value :
                    LET r == lastCall.outcome.value[i]
                    IN  /\ r.training_score = <<0, 1>>
                        /\ r.score =
                              RAdd(RAdd(RMul(<<1, 5>>, r.name_score),
                                        RMul(<<3, 20>>, r.test_type_score)),
                                   RMul(<<1, 20>>, r.embedding_score))
              /\ \A i \in 1..(Len(lastCall.outcome.value) - 1) :
                    RLe(lastCall.outcome.value[i + 1].score,
                        lastCall.outcome.value[i].score)

(* A recommend call that returned, on a service constructed without the    *)
(* training workbook, for a query with key terms in a record's name.       *)
C11_Witness ==
    /\ started
    /\ OnlyTrainingMissing
    /\ Returned
    /\ Len(lastCall.outcome.value) >= 2
    /\ lastCall.outcome.value[1].name_score = <<1, 1>>

(***************************************************************************)
(* Concurrent calls of Recommender.recommend on one Recommender            *)
(***************************************************************************)
MaxCalls == 2

Threads == 1..MaxCalls

(* What the index search reports for the vectors of two different query    *)
(* embeddings: all records equally near, or the first one farther.         *)
CallDistances(self) ==
    {[i \in 1..self.index.ntotal |-> Rat(0, 1)],
     [i \in 1..self.index.ntotal |-> IF i = 1 THEN Rat(3, 1) ELSE Rat(0, 1)]}

(* A recommend that remembers its top result as a labelled answer of the   *)
(* query: a call that writes the state the next call reads.                *)
SelfLearning(self, query, results) ==
    IF results.raised # NoError \/ results.value = <<>> THEN self
    ELSE [self EXCEPT !.training_index.query_to_urls =
              (NormalizeQuery(query) :> <<results.value[1].url>>) @@ @]

(* recommend assigns no attribute of self: the Recommender after a call is *)
(* the Recommender before it.                                              *)
SelfAfterRecommend(self, query, results) == self

InitConcurrent ==
    /\ dataFile = [assessments |-> Prefix(RecordPool, MaxCatalog)]
    /\ indexFile = BuiltIndex(dataFile.assessments)
    /\ metadataFile = BuiltMetadata(dataFile.assessments)
    /\ trainingFile = [rows |-> Prefix(TrainPool, MaxTrainRows)]
    /\ started = FALSE
    /\ recommender =
           Recommender(indexFile, metadataFile, dataFile, trainingFile).value
    /\ inflight = None
    /\ reply = None
    /\ lastCall = None
    /\ screen = None
    /\ rerankIn = None
    /\ rerankOut = None
    /\ scoreIn = None
    /\ scoreOut = None
    /\ calls = [t \in Threads |-> [pc |-> "idle"]]
    /\ build = None
    /\ retrieved = None

Running(t) == calls[t].pc = "stage1" \/ calls[t].pc = "stage2"

(* A thread enters recommend(query, top_k).  overlapped records whether    *)
(* another thread was inside recommend at that moment.                     *)
BeginCall(t) ==
    /\ calls[t].pc = "idle"
    /\ \E query \in DirectQueries, dist \in CallDistances(recommender) :
          calls' = [calls EXCEPT ![t] =
                       [pc |-> "stage1", query |-> query, top_k |-> 2,
                        dist |-> dist,
                        overlapped |-> \E u \in Threads \ {t} : Running(u)]]
    /\ UNCHANGED <<files, service, inflight, reply, lastCall, screen,
                   rerankIn, rerankOut, scoreIn, scoreOut, build, retrieved>>

(* candidates = self._stage1_retrieval(query, k=500), a local variable.    *)
Stage1Step(t) ==
    /\ calls[t].pc = "stage1"
    /\ \E candidates \in {_stage1_retrieval(recommender, "ok", calls[t].dist,
                                            Stage1K)} :
          calls' = [calls EXCEPT ![t] =
                       [pc |-> "stage2", query |-> @.query, top_k |-> @.top_k,
                        dist |-> @.dist, overlapped |-> @.overlapped,
                        candidates |-> candidates]]
    /\ UNCHANGED <<files, service, inflight, reply, lastCall, screen,
                   rerankIn, rerankOut, scoreIn, scoreOut, build, retrieved>>

(* A step that takes the candidates from where the thread that ran Stage 1 *)
(* last would have left them, had they been kept on the Recommender.       *)
Stage2StepShared(t) ==
    /\ calls[t].pc = "stage2"
    /\ \E results \in {RerankRetrieved(recommender, calls[t].query, calls[t].top_k,
                          calls[CHOOSE u \in Threads :
                                    /\ calls[u].pc = "stage2"
                                    /\ \A v \in Threads :
                                          calls[v].pc = "stage2" => v <= u
                               ].candidates)} :
          /\ calls' = [calls EXCEPT ![t] =
                          [pc |-> "done", query |-> @.query, top_k |-> @.top_k,
                           dist |-> @.dist, overlapped |-> @.overlapped,
                           results |-> results]]
          /\ recommender' = recommender
    /\ UNCHANGED <<files, started, inflight, reply, lastCall, screen,
                   rerankIn, rerankOut, scoreIn, scoreOut, build, retrieved>>

(* results = self._stage2_rerank(query, candidates, top_k); return results *)
Stage2Step(t) ==
    /\ calls[t].pc = "stage2"
    /\ \E results \in {RerankRetrieved(recommender, calls[t].query, calls[t].top_k,
                                       calls[t].candidates)} :
          /\ calls' = [calls EXCEPT ![t] =
                          [pc |-> "done", query |-> @.query, top_k |-> @.top_k,
                           dist |-> @.dist, overlapped |-> @.overlapped,
                           results |-> results]]
          /\ recommender' = SelfAfterRecommend(recommender, calls[t].query, results)
    /\ UNCHANGED <<files, started, inflight, reply, lastCall, screen,
                   rerankIn, rerankOut, scoreIn, scoreOut, build, retrieved>>

NextConcurrent ==
    \E t \in Threads :
        \/ BeginCall(t)
        \/ Stage1Step(t)
        \/ Stage2Step(t)

SpecConcurrent == InitConcurrent /\ [][NextConcurrent]_vars

(***************************************************************************)
(* Building the index, loading it and searching it                         *)
(***************************************************************************)
BatchSizes == {0, 1, 2, DefaultBatchSize}

BuildCatalogs ==
    UNION {[1..n -> Range(Prefix(RecordPool, MaxCatalog))] : n \in 0..MaxCatalog}

InitBuild ==
    /\ dataFile \in {[assessments |-> c] : c \in BuildCatalogs}
    /\ indexFile = Missing
    /\ metadataFile = Missing
    /\ trainingFile = Missing
    /\ started = FALSE
    /\ recommender = None
    /\ inflight = None
    /\ reply = None
    /\ lastCall = None
    /\ screen = None
    /\ rerankIn = None
    /\ rerankOut = None
    /\ scoreIn = None
    /\ scoreOut = None
    /\ calls = None
    /\ build = None
    /\ retrieved = None

(* python embeddings/build_index.py: the two files are written only when   *)
(* the run reaches the end.                                                *)
RunBuild ==
    /\ build = None
    /\ \E batch_size \in BatchSizes :
       \E out \in {build_main(dataFile, batch_size)} :
          /\ build' = [batch_size |-> batch_size, raised |-> out.raised]
          /\ indexFile' = IF out.raised = NoError THEN out.value.index
                          ELSE indexFile
          /\ metadataFile' = IF out.raised = NoError THEN out.value.metadata
                             ELSE metadataFile
    /\ UNCHANGED <<dataFile, trainingFile, service, inflight, reply, lastCall,
                   screen, rerankIn, rerankOut, scoreIn, scoreOut, calls, retrieved>>

(* Recommender() on the files of the build                                 *)
LoadBuilt ==
    /\ build # None
    /\ recommender = None
    /\ \E made \in {Recommender(indexFile, metadataFile, dataFile, trainingFile)} :
          /\ made.raised = NoError
          /\ recommender' = made.value
    /\ UNCHANGED <<files, started, inflight, reply, lastCall, screen, direct>>

NextBuild ==
    \/ RunBuild
    \/ LoadBuilt
    \/ CallRetrieve

SpecBuild == InitBuild /\ [][NextBuild]_vars

(***************************************************************************)
(* Direct calls of the text scorers                                        *)
(***************************************************************************)
ScenarioQuery ==
    <<"l","o","o","k","i","n","g"," ","f","o","r"," ","e","n","t","r","y",
      " ","l","e","v","e","l"," ","g","r","a","d","u","a","t","e"," ","a",
      "p","t","i","t","u","d","e"," ","t","e","s","t">>

ScorerQueries ==
    { ScenarioQuery,
      <<"J","a","v","a">>,
      <<"j","a","v","a"," ","t","e","a","m">>,
      <<"J","u","n","i","o","r"," ","h","i","r","e">>,
      <<"a"," ","t","e","s","t"," ","f","o","r"," ","t","h","e">>,
      <<"h","i"," ","i","t">>,
      <<>> }

(* Text a caller appends to a query.                                       *)
Extensions ==
    { <<" ","j","a","v","a">>, <<" ","s","a","l","e","s">>, <<" ","e","n","t","r","y">>, <<" ","x">> }

SeniorRecord ==
    [url |-> "u6",
     name |-> <<"L","e","a","d","e","r","s","h","i","p"," ","R","e","p","o","r","t">>,
     test_type |-> {"Competencies"},
     job_levels |-> {<<"S","e","n","i","o","r"," ","L","e","v","e","l">>}]

ScorerRecords == Range(RecordPool) \cup {SeniorRecord}

TestTypeTags ==
    {"Knowledge & Skills", "Personality & Behavior", "Ability & Aptitude",
     "Competencies"}

JobLevelTags == { <<"E","n","t","r","y"," ","L","e","v","e","l">>, <<"D","i","r","e","c","t","o","r">> }

(* self._compute_name_overlap(query, assessment)                           *)
CallNameOverlap ==
    /\ NotCalled
    /\ \E query \in ScorerQueries, assessment \in ScorerRecords :
          /\ scoreIn' = [method |-> "_compute_name_overlap", query |-> query,
                         assessment |-> assessment]
          /\ scoreOut' = _compute_name_overlap(query, assessment)
    /\ UNCHANGED <<files, service, inflight, reply, lastCall, screen,
                   rerankIn, rerankOut, calls, build, retrieved>>

(* self._compute_test_type_alignment(query, assessment), and the same call *)
(* with text appended to the query, with a test type added to the record   *)
(* and with a job level added to the record.                               *)
CallTypeAlignment ==
    /\ NotCalled
    /\ \E query \in ScorerQueries, extra \in Extensions,
          assessment \in ScorerRecords,
          test_type \in TestTypeTags, job_level \in JobLevelTags :
          /\ scoreIn' = [method |-> "_compute_test_type_alignment",
                         query |-> query, assessment |-> assessment,
                         extra |-> extra, test_type |-> test_type,
                         job_level |-> job_level]
          /\ scoreOut' =
                [plain |-> _compute_test_type_alignment(query, assessment),
                 longer |-> _compute_test_type_alignment(query \o extra, assessment),
                 typed |-> _compute_test_type_alignment(query,
                               [assessment EXCEPT !.test_type = @ \cup {test_type}]),
                 levelled |-> _compute_test_type_alignment(query,
                               [assessment EXCEPT !.job_levels = @ \cup {job_level}])]
    /\ UNCHANGED <<files, service, inflight, reply, lastCall, screen,
                   rerankIn, rerankOut, calls, build, retrieved>>

(* self._stage2_rerank(query, [a, b], top_k) for two records               *)
CallRerankPair ==
    /\ NotCalled
    /\ \E query \in ScorerQueries, a \in ScorerRecords, b \in ScorerRecords,
          da \in Distances, db \in Distances, top_k \in {1, 2} :
       \E candidates \in
            {<<[url |-> a.url, embedding_similarity |-> RSub(One, da),
                assessment |-> a],
               [url |-> b.url, embedding_similarity |-> RSub(One, db),
                assessment |-> b]>>} :
          /\ rerankIn' = [query |-> query, candidates |-> candidates,
                          top_k |-> top_k]
          /\ rerankOut' = _stage2_rerank(recommender.training_index, query,
                                         candidates, top_k)
    /\ UNCHANGED <<files, service, inflight, reply, lastCall, screen,
                   scoreIn, scoreOut, calls, build, retrieved>>

NextScorers ==
    \/ CallNameOverlap
    \/ CallTypeAlignment
    \/ CallRerankPair

SpecScorers == InitDirect /\ [][NextScorers]_vars

Done(t) == calls # None /\ calls[t].pc = "done"

SameArguments(t, u) ==
    /\ calls[t].query = calls[u].query
    /\ calls[t].top_k = calls[u].top_k
    /\ calls[t].dist = calls[u].dist

C13_ConcurrentCallsAreIsolated ==
    calls # None =>
        /\ recommender =
               Recommender(indexFile, metadataFile, dataFile, trainingFile).value
        /\ \A t \in Threads :
              Done(t) => calls[t].results =
                             recommend(recommender, calls[t].query, calls[t].top_k,
                                       "ok", calls[t].dist)

C13_Witness ==
    /\ calls # None
    /\ \E t \in Threads, u \in Threads :
          /\ t # u
          /\ Done(t) /\ Done(u)
          /\ calls[u].overlapped
          /\ calls[t].dist # calls[u].dist
          /\ calls[t].results.raised = NoError
          /\ calls[t].results # calls[u].results

Built == build # None /\ build.raised = NoError

Retrieved ==
    retrieved # None /\ retrieved.embedding = "ok" /\ retrieved.out.raised = NoError

(* C14: after a build, for any catalog and batch size, the index holds one *)
(* vector per record of the catalog, the vector at position i is the       *)
(* embedding of the i-th record and the i-th url of the metadata is that   *)
(* record's url; at query time a hit at position i gets the i-th url of    *)
(* the metadata.                                                           *)
C14_IndexAlignedWithCatalog ==
    /\ Built =>
          /\ indexFile.ntotal = Len(dataFile.assessments)
          /\ DOMAIN indexFile.vectors = DOMAIN dataFile.assessments
          /\ DOMAIN metadataFile.assessment_urls = DOMAIN dataFile.assessments
          /\ \A i \in DOMAIN dataFile.assessments :
                /\ indexFile.vectors[i] =
                       [unit |-> [embedding_of |->
                           create_embedding_text(dataFile.assessments[i])]]
                /\ metadataFile.assessment_urls[i] = dataFile.assessments[i].url
    /\ (Built /\ Retrieved) =>
          \A j \in DOMAIN retrieved.hits :
              retrieved.hits[j].label >= 0 =>
                  retrieved.out.value[j].url =
                      metadataFile.assessment_urls[retrieved.hits[j].label + 1]

C14_Witness ==
    /\ Built /\ Retrieved
    /\ build.batch_size = 2
    /\ Len(dataFile.assessments) = 3
    /\ dataFile.assessments[1].url # dataFile.assessments[3].url
    /\ retrieved.hits[1].label = 2
    /\ retrieved.out.value[1].url = dataFile.assessments[3].url

(* C15 as stated: _stage1_retrieval returns at most k candidates, each a   *)
(* different item of the index with embedding_similarity 1 - d for its     *)
(* distance d, by ascending distance, none of the items left out nearer    *)
(* than one returned; the similarities are non-increasing.                 *)
C15_NearestByDistance ==
    (Retrieved /\ ~DanglingId) =>
        LET out == retrieved.out.value
            n == recommender.index.ntotal
        IN  /\ Len(out) <= retrieved.k
            /\ \A j \in 1..(Len(out) - 1) :
                  RLe(out[j + 1].embedding_similarity, out[j].embedding_similarity)
            /\ \E pos \in [DOMAIN out -> 1..n] :
                  /\ \A i, j \in DOMAIN out : i # j => pos[i] # pos[j]
                  /\ \A j \in DOMAIN out :
                        /\ out[j].url = recommender.metadata.assessment_urls[pos[j]]
                        /\ out[j].embedding_similarity =
                               RSub(One, retrieved.dist[pos[j]])
                  /\ \A p \in (1..n) \ Range(pos) : \A j \in DOMAIN out :
                        RLe(retrieved.dist[pos[j]], retrieved.dist[p])

(***************************************************************************)
(* Properties of the text scorers (under SpecScorers)                      *)
(***************************************************************************)
CalledMethod(method) == scoreIn # None /\ scoreIn.method = method

(* Every token of the query is a stop word or shorter than three           *)
(* characters.                                                             *)
NoKeyTerm(query) ==
    \A t \in split(lower(query)) : t \in stopwords \/ Len(t) <= 2

(* C16: _compute_name_overlap returns a value in [0,1], and exactly 0.0    *)
(* when the query has no key term left after the removal of stop words and *)
(* short tokens.                                                           *)
C16_NameOverlapInUnitInterval ==
    CalledMethod("_compute_name_overlap") =>
        /\ RLe(Zero, scoreOut)
        /\ RLe(scoreOut, One)
        /\ NoKeyTerm(scoreIn.query) => scoreOut = Zero

C16_Witness ==
    /\ CalledMethod("_compute_name_overlap")
    /\ scoreIn.query # <<>>
    /\ NoKeyTerm(scoreIn.query)
    /\ scoreOut = Zero

(* C17: for a fixed record, appending text to the query never lowers       *)
(* _compute_test_type_alignment; for a fixed query, adding a test type or  *)
(* a job level to the record never lowers it.                              *)
C17_AlignmentIsMonotone ==
    CalledMethod("_compute_test_type_alignment") =>
        /\ RLe(scoreOut.plain, scoreOut.longer)
        /\ RLe(scoreOut.plain, scoreOut.typed)
        /\ RLe(scoreOut.plain, scoreOut.levelled)

C17_Witness ==
    /\ CalledMethod("_compute_test_type_alignment")
    /\ "Knowledge & Skills" \in scoreIn.assessment.test_type
    /\ scoreIn.extra = <<" ","j","a","v","a">>
    /\ RLt(Zero, scoreOut.plain)
    /\ RLt(scoreOut.plain, scoreOut.longer)

(* The query has an entry-level keyword and no technical, behavioural or   *)
(* business keyword.                                                       *)
EntryLevelOnly(query) ==
    /\ AnyKeyword(entry_keywords, lower(query))
    /\ ~AnyKeyword(technical_keywords, lower(query))
    /\ ~AnyKeyword(behavioral_keywords, lower(query))
    /\ ~AnyKeyword(business_keywords, lower(query))

AptitudeEntry(assessment) ==
    /\ Get(assessment, "test_type", {}) = {"Ability & Aptitude"}
    /\ Get(assessment, "job_levels", {}) =
           {<<"E","n","t","r","y"," ","L","e","v","e","l">>}

CompetenciesSenior(assessment) ==
    /\ Get(assessment, "test_type", {}) = {"Competencies"}
    /\ Get(assessment, "job_levels", {}) =
           {<<"S","e","n","i","o","r"," ","L","e","v","e","l">>}

(* The two candidates of the call are an Ability & Aptitude / Entry Level  *)
(* record at position i and a Competencies / Senior Level record at        *)
(* position j, with equal name overlap and equal embedding similarity, for *)
(* an entry-level query and an empty training index.                       *)
ScenarioPair(i, j) ==
    /\ rerankIn # None
    /\ EntryLevelOnly(rerankIn.query)
    /\ recommender.training_index = EmptyTrainingIndex
    /\ Len(rerankIn.candidates) = 2
    /\ {i, j} = {1, 2}
    /\ AptitudeEntry(rerankIn.candidates[i].assessment)
    /\ CompetenciesSenior(rerankIn.candidates[j].assessment)
    /\ rerankIn.candidates[i].embedding_similarity =
           rerankIn.candidates[j].embedding_similarity
    /\ _compute_name_overlap(rerankIn.query, rerankIn.candidates[i].assessment)
         = _compute_name_overlap(rerankIn.query, rerankIn.candidates[j].assessment)

(* C18: for an entry-level query and an empty training set, an Ability &   *)
(* Aptitude / Entry Level record has alignment 1.0 and a Competencies /    *)
(* Senior Level record 0.0, and with equal name overlap and embedding      *)
(* similarity _stage2_rerank ranks the first above the second.             *)
C18_EntryLevelScenario ==
    /\ (CalledMethod("_compute_test_type_alignment")
            /\ EntryLevelOnly(scoreIn.query)) =>
          /\ AptitudeEntry(scoreIn.assessment) => scoreOut.plain = One
          /\ CompetenciesSenior(scoreIn.assessment) => scoreOut.plain = Zero
    /\ \A i \in {1, 2}, j \in {1, 2} :
          ScenarioPair(i, j) =>
              /\ rerankOut[1].url = rerankIn.candidates[i].url
              /\ rerankOut[1].test_type_score = One
              /\ rerankIn.top_k = 2 =>
                    /\ rerankOut[2].url = rerankIn.candidates[j].url
                    /\ rerankOut[2].test_type_score = Zero
                    /\ RLt(rerankOut[2].score, rerankOut[1].score)

C18_Witness ==
    /\ ScenarioPair(2, 1)
    /\ rerankIn.query = ScenarioQuery
    /\ rerankIn.top_k = 2
    /\ rerankOut[1].url = rerankIn.candidates[2].url
    /\ rerankOut[2].url = rerankIn.candidates[1].url

(***************************************************************************)
(* The training score without an exact match (under SpecDirect)            *)
(***************************************************************************)
(* The normalised queries of the training file that label url.             *)
TrainingQueriesOf(url) ==
    IF trainingFile = Missing THEN {}
    ELSE {NormalizeQuery(trainingFile.rows[i].Query) :
             i \in {j \in DOMAIN trainingFile.rows :
                       trainingFile.rows[j].Assessment_url = url}}

(* The contribution of the training query t to the score of query q: 8 for *)
(* a substring either way, else the token-overlap score, nothing when a    *)
(* token set is empty.                                                     *)
ContributionOf(q, t) ==
    LET Q == split(q)
        T == split(t)
        common == Cardinality(Q \cap T)
    IN  IF IsSubstring(q, t) \/ IsSubstring(t, q) THEN Rat(8, 1)
        ELSE IF Q = {} \/ T = {} THEN Zero
        ELSE RMul(RAdd(RMul(Rat(1, 2), Rat(common, Cardinality(Q \cup T))),
                       RMul(Rat(1, 2), Rat(common, Cardinality(Q)))),
                  Rat(6, 1))

(* C20: without an exact match, _compute_training_score is M + B: M the    *)
(* maximum contribution of the training queries that label the id (0 when  *)
(* there is none), B = 0.5 when the id appears in the training set, else 0.*)
C20_MaxContributionPlusBonus ==
    (scoreIn # None /\ ~TrainedPair(scoreIn.query, scoreIn.url)) =>
        LET q == NormalizeQuery(scoreIn.query)
            M == RMaxOf({ContributionOf(q, t) : t \in TrainingQueriesOf(scoreIn.url)},
                        Zero)
            B == IF trainingFile # Missing
                    /\ \E i \in DOMAIN trainingFile.rows :
                          trainingFile.rows[i].Assessment_url = scoreIn.url
                 THEN Rat(1, 2) ELSE Zero
        IN  scoreOut = RAdd(M, B)

(* Two training queries label the id, neither a substring match, and the   *)
(* score is the larger overlap plus the bonus.                             *)
C20_Witness ==
    /\ scoreIn # None
    /\ ~TrainedPair(scoreIn.query, scoreIn.url)
    /\ Cardinality(TrainingQueriesOf(scoreIn.url)) = 2
    /\ \E t, u \in TrainingQueriesOf(scoreIn.url) :
          RLt(Zero, ContributionOf(NormalizeQuery(scoreIn.query), t))
          /\ RLt(ContributionOf(NormalizeQuery(scoreIn.query), t),
                 ContributionOf(NormalizeQuery(scoreIn.query), u))
          /\ RLt(ContributionOf(NormalizeQuery(scoreIn.query), u), Rat(8, 1))
    /\ scoreOut = Rat(3, 1)

(***************************************************************************)
(* The successful response of POST /recommend (under Spec)                 *)
(***************************************************************************)
Succeeded ==
    /\ inflight # None
    /\ inflight.path = "/recommend"
    /\ Answered
    /\ reply.status = 200

(* The entries of recommendations are entries of ranked, in its order.     *)
RECURSIVE InOrderOf(_, _)
InOrderOf(recommendations, ranked) ==
    IF recommendations = <<>> THEN TRUE
    ELSE IF ranked = <<>> THEN FALSE
    ELSE IF /\ recommendations[1].url = ranked[1].url
            /\ recommendations[1].name = ranked[1].name
         THEN InOrderOf(Tail(recommendations), Tail(ranked))
         ELSE InOrderOf(recommendations, Tail(ranked))

(* C19: a successful /recommend response echoes the query of the request,  *)
(* its count is the length of its recommendations, which is at most the    *)
(* requested top_k and so at most 10, and the entries are in the order the *)
(* recommender ranked them.                                                *)
C19_ResponseShape ==
    Succeeded =>
        /\ reply.query = inflight.query
        /\ reply.count = Len(reply.recommendations)
        /\ reply.count <= inflight.top_k
        /\ inflight.top_k <= 10
        /\ Returned
        /\ InOrderOf(reply.recommendations, lastCall.outcome.value)

C19_Witness ==
    /\ Succeeded
    /\ reply.count = 2
    /\ inflight.top_k = 2
    /\ reply.recommendations[1].url # reply.recommendations[2].url
    /\ RLt(lastCall.outcome.value[2].score, lastCall.outcome.value[1].score)

(***************************************************************************)
(* The final score of an entry (under SpecScorers)                         *)
(***************************************************************************)
(* 0.60*min(training/10, 1) + 0.20*name + 0.15*test_type + 0.05*embedding  *)
(* of the sub-scores the entry reports.                                    *)
WeightedSumOf(entry) ==
    RAdd(RAdd(RAdd(RMul(Rat(3, 5), RMin(RMul(entry.training_score, Rat(1, 10)),
                                         Rat(1, 1))),
                   RMul(Rat(1, 5), entry.name_score)),
              RMul(Rat(3, 20), entry.test_type_score)),
         RMul(Rat(1, 20), entry.embedding_score))

(* C21: every entry _stage2_rerank returns has score = 0.60 *              *)
(* min(training_score/10, 1) + 0.20 * name_score + 0.15 * test_type_score  *)
(* + 0.05 * embedding_score of its own sub-scores; its embedding_score is  *)
(* the Stage-1 similarity of its candidate, and test_type_score enters     *)
(* without a cap.                                                          *)
C21_ScoreIsWeightedSum ==
    rerankIn # None =>
        \A j \in DOMAIN rerankOut :
            /\ rerankOut[j].score = WeightedSumOf(rerankOut[j])
            /\ \E i \in DOMAIN rerankIn.candidates :
                  EntryOf(rerankOut[j], rerankIn.candidates[i])

C21_Witness ==
    /\ rerankIn # None
    /\ Len(rerankOut) = 2
    /\ RLt(One, rerankOut[1].test_type_score)
    /\ RLt(Zero, rerankOut[1].training_score)
    /\ RLt(rerankOut[1].embedding_score, Zero)
    /\ rerankOut[1].score = WeightedSumOf(rerankOut[1])

(* The key terms of a text: its lowercased whitespace tokens longer than 2 *)
(* characters that are not stop words.                                     *)
KeyTermsOf(text) ==
    {t \in split(lower(text)) : ~NoKeyTerm(t)}

(* C22: for a query with at least one key term, _compute_name_overlap is   *)
(* min(1, (2*|Q n N| + |Q n D|) / (2*|Q|)) for the key-term sets Q, N, D   *)
(* of the query, the name and the description (empty when absent).         *)
C22_NameOverlapFormula ==
    (CalledMethod("_compute_name_overlap") /\ KeyTermsOf(scoreIn.query) # {}) =>
        LET Q == KeyTermsOf(scoreIn.query)
            N == KeyTermsOf(scoreIn.assessment.name)
            D == IF "description" \in DOMAIN scoreIn.assessment
                 THEN KeyTermsOf(scoreIn.assessment.description) ELSE {}
            ratio == Rat(2 * Cardinality(Q \cap N) + Cardinality(Q \cap D),
                         2 * Cardinality(Q))
        IN  scoreOut = IF RLt(Rat(1, 1), ratio) THEN Rat(1, 1) ELSE ratio

(* One of two key terms is in the name and in the description: 3/4.        *)
C22_Witness ==
    /\ CalledMethod("_compute_name_overlap")
    /\ Cardinality(KeyTermsOf(scoreIn.query)) = 2
    /\ Cardinality(KeyTermsOf(scoreIn.query)
                       \cap KeyTermsOf(scoreIn.assessment.name)) = 1
    /\ scoreOut = Rat(3, 4)

(* The query, lowercased, contains a keyword of the set.                   *)
Needs(keywords) == AnyKeyword(keywords, lower(scoreIn.query))

Has(test_type) == test_type \in Get(scoreIn.assessment, "test_type", {})

IsEntry ==
    \E level \in Get(scoreIn.assessment, "job_levels", {}) :
        \/ IsSubstring(<<"E","n","t","r","y">>, level)
        \/ IsSubstring(<<"G","r","a","d","u","a","t","e">>, level)

(* The number of half points of the awards.                                *)
HalfPoints ==
    (IF Needs(technical_keywords) /\ Has("Knowledge & Skills") THEN 2 ELSE 0)
    + (IF Needs(behavioral_keywords) /\ Has("Personality & Behavior") THEN 2 ELSE 0)
    + (IF Needs(business_keywords) /\ Has("Biodata & Situational Judgement")
       THEN 2 ELSE 0)
    + (IF Needs(entry_keywords) /\ IsEntry THEN 1 ELSE 0)
    + (IF Needs(entry_keywords) /\ Has("Ability & Aptitude") THEN 1 ELSE 0)

(* C23: _compute_test_type_alignment is the sum of 1.0 for each of         *)
(* (needs_k, has_k), (needs_p, has_p), (needs_b, has_b) and 0.5 for each   *)
(* of (needs_entry, is_entry), (needs_entry, has_a): a multiple of 0.5     *)
(* between 0.0 and 4.0, and 0.0 when the query has no intent keyword.      *)
C23_AlignmentIsSumOfAwards ==
    CalledMethod("_compute_test_type_alignment") =>
        /\ scoreOut.plain = Rat(HalfPoints, 2)
        /\ \E n \in 0..8 : scoreOut.plain = Rat(n, 2)
        /\ (~Needs(technical_keywords) /\ ~Needs(behavioral_keywords)
               /\ ~Needs(business_keywords) /\ ~Needs(entry_keywords))
              => scoreOut.plain = Rat(0, 1)

C23_Witness ==
    /\ CalledMethod("_compute_test_type_alignment")
    /\ Needs(technical_keywords) /\ Needs(behavioral_keywords)
    /\ ~Needs(business_keywords)
    /\ Has("Biodata & Situational Judgement")
    /\ scoreOut.plain = Rat(2, 1)

(***************************************************************************)
(* The service while the catalog file is edited under it                   *)
(***************************************************************************)
(* data/shl_assessments.json is deleted, loses its first record, or gets   *)
(* another duration for its first record, after the service loaded it.     *)
EditCatalog ==
    /\ recommender # None
    /\ Idle
    /\ dataFile # Missing
    /\ dataFile.assessments # <<>>
    /\ dataFile.assessments = recommender.assessments
    /\ \/ dataFile' = Missing
       \/ dataFile' = [assessments |-> Tail(dataFile.assessments)]
       \/ dataFile' = [assessments |->
                          [dataFile.assessments EXCEPT
                              ![1] = [@ EXCEPT !.duration = <<"9","9">>]]]
    /\ UNCHANGED <<indexFile, metadataFile, trainingFile, service, inflight,
                   reply, lastCall, screen, direct>>

NextEdited ==
    \/ startup_event
    \/ EditCatalog
    \/ ClientPost
    \/ HandleRecommend
    \/ ClientReceive

SpecEdited == Init /\ [][NextEdited]_vars

(* C24 as stated: the catalog, the index with its metadata and the         *)
(* training index are what startup built, and the answer to a request      *)
(* whose recommend call returned is made from the catalog loaded at        *)
(* startup: nothing is rebuilt or reloaded.                                *)
C24_BuiltOnceNeverReloaded ==
    /\ recommender # None =>
          recommender.training_index = _build_training_index(trainingFile)
    /\ (recommender # None /\ Returned /\ Answered) =>
          reply = RecommendResponse(
                      inflight.query,
                      FormatRecommendations(lastCall.outcome.value,
                                            recommender.assessments))

TrainingRowChoices ==
    {[Query |-> q, Assessment_url |-> u] :
        q \in { <<" ","J","a","v","a"," ","R","o","l","e"," ">>, <<"j","a","v","a"," ","r","o","l","e">>,
                <<"J","A","V","A">>, <<"s","a","l","e","s"," ","t","e","a","m">> },
        u \in {"u1", "u2"}}

InitTraining ==
    /\ dataFile = [assessments |-> Prefix(RecordPool, MaxCatalog)]
    /\ indexFile = BuiltIndex(dataFile.assessments)
    /\ metadataFile = BuiltMetadata(dataFile.assessments)
    /\ \/ trainingFile = Missing
       \/ trainingFile \in
              {[rows |-> rows] :
                  rows \in UNION {[1..n -> TrainingRowChoices] : n \in 0..MaxTrainRows}}
    /\ started = FALSE
    /\ recommender = None
    /\ inflight = None
    /\ reply = None
    /\ lastCall = None
    /\ screen = None
    /\ rerankIn = None
    /\ rerankOut = None
    /\ scoreIn = None
    /\ scoreOut = None
    /\ calls = None
    /\ build = None
    /\ retrieved = None

(* Recommender(): __init__ builds the training index from the workbook.    *)
ConstructRecommender ==
    /\ recommender = None
    /\ recommender' =
           Recommender(indexFile, metadataFile, dataFile, trainingFile).value
    /\ UNCHANGED <<files, started, inflight, reply, lastCall, screen, direct>>

SpecTraining == InitTraining /\ [][ConstructRecommender]_vars

(* C26: the training index built from any training table is coherent: u is *)
(* among query_to_urls[q] exactly when q is among url_to_queries[u], and   *)
(* all_training_urls is the set of the ids of the query_to_urls entries.   *)
C26_TrainingIndexIsCoherent ==
    recommender # None =>
        LET q2u == recommender.training_index.query_to_urls
            u2q == recommender.training_index.url_to_queries
        IN  /\ \A q \in DOMAIN q2u : \A u \in Range(q2u[q]) :
                  u \in DOMAIN u2q /\ q \in Range(u2q[u])
            /\ \A u \in DOMAIN u2q : \A q \in Range(u2q[u]) :
                  q \in DOMAIN q2u /\ u \in Range(q2u[q])
            /\ recommender.training_index.all_training_urls
                  = UNION {Range(q2u[q]) : q \in DOMAIN q2u}

(* Rows whose queries differ as typed and agree once normalised, for two   *)
(* ids.                                                                    *)
C26_Witness ==
    /\ recommender # None
    /\ trainingFile # Missing
    /\ Len(trainingFile.rows) = 3
    /\ trainingFile.rows[1].Query # trainingFile.rows[2].Query
    /\ DOMAIN recommender.training_index.query_to_urls = { <<"j","a","v","a"," ","r","o","l","e">> }
    /\ recommender.training_index.all_training_urls = {"u1", "u2"}
    /\ Len(recommender.training_index.url_to_queries["u1"]) = 2

(***************************************************************************)
(* The minutes of a duration in the response and in the index (under Spec) *)
(***************************************************************************)
(* The minutes the index builder put into the embedding text of the vector *)
(* at position i.                                                          *)
MinutesInIndex(i) == recommender.index.vectors[i].unit.embedding_of.minutes

(* C27 as stated: the duration the API returns for a record and the        *)
(* minutes the index builder put into the record's embedding text are the  *)
(* same number, the first integer of the duration text, also for a range.  *)
C27_SameMinutesEverywhere ==
    (Succeeded /\ recommender # None /\ dataFile # Missing
        /\ dataFile.assessments = recommender.assessments) =>
        \A j \in DOMAIN reply.recommendations :
        \A i \in DOMAIN recommender.metadata.assessment_urls :
            (/\ recommender.metadata.assessment_urls[i]
                    = reply.recommendations[j].url
             /\ MinutesInIndex(i) # <<>>)
                => ParseInt(MinutesInIndex(i)) = reply.recommendations[j].duration

(***************************************************************************)
(* The range of the training score (under SpecDirect)                      *)
(***************************************************************************)
(* C28: _compute_training_score is exactly 10.0, for an exact match, or at *)
(* most 8.5; so an exact match is strictly the highest score, the cap      *)
(* min(training_score/10, 1.0) reduces no value and the training term of   *)
(* the final score is at most 0.60.                                        *)
C28_TenOrAtMostEightAndAHalf ==
    /\ scoreIn # None =>
          IF TrainedPair(scoreIn.query, scoreIn.url)
          THEN scoreOut = Rat(10, 1)
          ELSE RLe(Rat(0, 1), scoreOut) /\ RLe(scoreOut, Rat(17, 2))
    /\ rerankIn # None =>
          \A j \in DOMAIN rerankOut :
              /\ \/ rerankOut[j].training_score = Rat(10, 1)
                 \/ RLe(rerankOut[j].training_score, Rat(17, 2))
              /\ RMin(RMul(rerankOut[j].training_score, Rat(1, 10)), Rat(1, 1))
                     = RMul(rerankOut[j].training_score, Rat(1, 10))
              /\ RLe(RMul(Rat(3, 5), RMul(rerankOut[j].training_score, Rat(1, 10))),
                     Rat(3, 5))

C28_Witness ==
    /\ scoreIn # None
    /\ ~TrainedPair(scoreIn.query, scoreIn.url)
    /\ scoreOut = Rat(17, 2)


(***************************************************************************)
(* The text sub-scores on a query and on the same query typed otherwise    *)
(***************************************************************************)
(* The query in another letter case, or with whitespace put around it.     *)
VariantsOf(query) ==
    { lower(query),
      <<" ", " ">> \o query,
      query \o <<" ", "\t">>,
      <<"\n">> \o lower(query) \o <<" ">> }

(* The three scorers that read the query's text, called on a query and on  *)
(* a variant of it for the same record.                                    *)
CallScorersOnVariant ==
    /\ NotCalled
    /\ \E query \in ScorerQueries, assessment \in ScorerRecords :
       \E variant \in VariantsOf(query) :
          /\ scoreIn' = [method |-> "variant", query |-> query,
                         variant |-> variant, assessment |-> assessment]
          /\ scoreOut' =
                [training |-> _compute_training_score(recommender.training_index,
                                  query, assessment.url),
                 name |-> _compute_name_overlap(query, assessment),
                 type |-> _compute_test_type_alignment(query, assessment),
                 training_v |-> _compute_training_score(recommender.training_index,
                                  variant, assessment.url),
                 name_v |-> _compute_name_overlap(variant, assessment),
                 type_v |-> _compute_test_type_alignment(variant, assessment)]
    /\ UNCHANGED <<files, service, inflight, reply, lastCall, screen,
                   rerankIn, rerankOut, calls, build, retrieved>>

SpecVariants == InitDirect /\ [][CallScorersOnVariant]_vars

(* C29: the training score, the name overlap and the test-type alignment   *)
(* of a record are the same for a query and for that query in another      *)
(* letter case or with leading or trailing whitespace.                     *)
C29_CaseAndOuterWhitespaceIgnored ==
    scoreIn # None =>
        /\ scoreOut.training_v = scoreOut.training
        /\ scoreOut.name_v = scoreOut.name
        /\ scoreOut.type_v = scoreOut.type

(* A variant that differs in case and in whitespace, on a record for which *)
(* all three scores are positive.                                          *)
C29_Witness ==
    /\ scoreIn # None
    /\ Len(scoreIn.variant) # Len(scoreIn.query)
    /\ strip(scoreIn.variant) # strip(scoreIn.query)
    /\ scoreOut.training # Zero
    /\ scoreOut.name # Zero
    /\ scoreOut.type # Zero

(***************************************************************************)
(* What _stage2_rerank returns of the candidates it was given              *)
(***************************************************************************)
(* What identifies a candidate in an entry of the result: its url, its     *)
(* name and its embedding similarity.                                      *)
KeyOfCandidate(cand) ==
    <<cand.url, cand.assessment.name, cand.embedding_similarity>>

KeyOfEntry(entry) == <<entry.url, entry.name, entry.embedding_score>>

(* The positions of the candidate list, and of the result, that hold key.  *)
PositionsIn(candidates, key) ==
    {i \in DOMAIN candidates : KeyOfCandidate(candidates[i]) = key}

PositionsOut(out, key) == {j \in DOMAIN out : KeyOfEntry(out[j]) = key}

(* C30: every entry _stage2_rerank returns is the entry of a position of   *)
(* the candidate list, with that candidate's url and name, no position is  *)
(* used twice (an entry occurs no more often than its candidate does), and *)
(* a candidate left out scores no more than any entry returned.            *)
C30_RerankOnlySelects ==
    rerankIn # None =>
        /\ \A j \in DOMAIN rerankOut :
              Cardinality(PositionsOut(rerankOut, KeyOfEntry(rerankOut[j])))
                  <= Cardinality(PositionsIn(rerankIn.candidates,
                                             KeyOfEntry(rerankOut[j])))
        /\ \A i \in DOMAIN rerankIn.candidates :
              ( /\ DOMAIN rerankOut # {}
                /\ Cardinality(PositionsOut(rerankOut,
                                   KeyOfCandidate(rerankIn.candidates[i])))
                      < Cardinality(PositionsIn(rerankIn.candidates,
                                   KeyOfCandidate(rerankIn.candidates[i]))) )
                  => \E left \in {ScoreCandidate(recommender.training_index,
                                      rerankIn.query, rerankIn.candidates[i])} :
                        \A j \in DOMAIN rerankOut :
                            RLe(left.score, rerankOut[j].score)

(* Three candidates, two of them returned with different scores and the    *)
(* third left out.                                                         *)
C30_Witness ==
    /\ rerankIn # None
    /\ Len(rerankIn.candidates) = 3
    /\ Len(rerankOut) = 2
    /\ rerankOut[1].score # rerankOut[2].score
    /\ \E i \in DOMAIN rerankIn.candidates :
          \A j \in DOMAIN rerankOut : rerankOut[j].url # rerankIn.candidates[i].url
==========================================================================
